---- MODULE Spec2Model ----
(***************************************************************************)
(* A model of the call-lifecycle bookkeeping of livekit-gemini:            *)
(*   - OutboundCaller (outbound_caller.py): call_results, phone            *)
(*     validation, make_outbound_call, make_bulk_calls, update_call_result *)
(*   - the carrier webhooks (webhook_handler.py)                           *)
(*   - the pickup watcher of agent.entrypoint (agent.py)                   *)
(* Optional values (Python's Optional[...]) are sequences of length <= 1:  *)
(* None is <<>> and a value x is <<x>>.                                    *)
(***************************************************************************)
EXTENDS Integers, Sequences, FiniteSets, TLC

\* ------------------------------------------------------------------ bounds
\* The number of dispatches (single calls and campaign recipients together).
MaxCalls == 2
\* The number of status updates (update_call_result calls and status
\* webhooks together) in one run.
MaxUpdates == 2
\* How many ticks past its 0.2 s an asyncio.sleep may return late.
MaxOversleep == 1

\* --------------------------------------------------------------- constants
\* agent.py: while perf_counter() - start_time < 60
PICKUP_CEILING_S == 60
\* agent.py: await asyncio.sleep(0.2), one tick of the watcher's clock
POLLS_PER_SECOND == 5

None == <<>>
Some(x) == <<x>>

VARIABLES
    \* OutboundCaller and the campaign runner
    call_results,   \* OutboundCaller.call_results
    bulk_pc,        \* position of make_bulk_calls: idle, dispatch, sleep, done
    recipients,     \* make_bulk_calls' argument
    i,              \* make_bulk_calls' loop index (1-based)
    results,        \* make_bulk_calls' local list, returned at the end: each entry
                    \* is a CallResult of call_results (ref, its index there) or
                    \* a CallResult of its own (own)
    attempts,       \* recipients handed to make_outbound_call, in order
    create_log,     \* recipients for which twilio_client.calls.create was invoked
    delays,         \* asyncio.sleep(delay_between_calls) calls of the campaign
    raised,         \* the exception the last single make_outbound_call let escape
    response,       \* the last webhook's response body
    updates,        \* status updates so far
    last_op,        \* the operation of the last step: for a status update its
                    \* arguments, for a dispatch the identifier and status the
                    \* carrier returned ("" when it returned no call) and the
                    \* CallResult that make_outbound_call returned
    \* the pickup watcher of agent.entrypoint
    w_pc,           \* not_started, loop, sleeping, session, returned
    now,            \* perf_counter() - start_time, in ticks of 0.2 s
    wake_at,        \* the tick at which the pending asyncio.sleep(0.2) is due
    callStatus,     \* participant.attributes.get("sip.callStatus")
    disconnect_reason, \* participant.disconnect_reason
    picked_up,      \* entrypoint's local picked_up
    outcome,        \* waiting, active, rejected, unavailable, timed_out
    shutdown_count, \* calls of ctx.shutdown()
    session_started,\* run_voice_pipeline_agent was started
    active_in_time, \* callStatus is "active" and became so before the ceiling elapsed
    ever_active,    \* callStatus was "active" at some instant
    ever_disc,      \* disconnect_reason was USER_REJECTED or USER_UNAVAILABLE at some instant
    \* get_campaign_summary on a caller holding given records
    summary_records,\* the call_results the summary is taken of
    summary,        \* the dictionary get_campaign_summary returned, None before
    \* outbound_call_handler (POST /twiml/outbound)
    twiml_request,  \* the request's AnsweredBy, CallStatus and CallSid
    twiml_response, \* what the handler did: the verbs of the TwiML returned, None before
    LIVEKIT_URL,    \* webhook_handler.LIVEKIT_URL, os.getenv('LIVEKIT_URL') at import
    \* the management API (app.py)
    call_status,    \* app.call_status: call_id -> record
    task_pc,        \* call_id -> position of its initiate_call background task
    http_response,  \* the last response of the API
    app_environ,    \* os.environ of the API process, restricted to what initiate_call reads
    app_op,         \* the operation of the API that took the last step
    \* OutboundCaller.__init__
    environ,        \* os.environ restricted to the required names
    constructed,    \* what OutboundCaller() did, None before
    \* the agent's tools (CallAgent)
    in_room,        \* the callee is a participant of the room
    tool_log,       \* the tool calls made, each with what it did
    \* run_voice_pipeline_agent
    session_pc,     \* not_called, starting, greeting, returned, raised
    session_running,\* session.start has completed
    greeting,       \* what session.say did: none while not attempted, ok, error
    \* recording_status_webhook (POST /webhook/recording-status)
    recording_request,  \* the request's CallSid, RecordingSid, RecordingUrl, RecordingStatus
    recording_response, \* what the handler did, None before
    \* make_calls.py
    file,           \* the contacts file: its extension, whether it can be read, its rows
    loaded,         \* what the contact loader did, None before
    argv,           \* the command line of make_calls.py
    exit_status     \* how main ended, None before

cvars == <<call_results, bulk_pc, recipients, i, results, attempts, create_log,
           delays, raised, response, updates, last_op>>
wvars == <<w_pc, now, wake_at, callStatus, disconnect_reason, picked_up, outcome,
           shutdown_count, session_started, active_in_time, ever_active, ever_disc>>
svars == <<summary_records, summary>>
tvars == <<twiml_request, twiml_response, LIVEKIT_URL>>
avars == <<call_status, task_pc, http_response, app_environ, app_op>>
evars == <<environ, constructed>>
gvars == <<in_room, tool_log>>
pvars == <<session_pc, session_running, greeting>>
rvars == <<recording_request, recording_response>>
lvars == <<file, loaded>>
mvars == <<argv, exit_status>>
xvars == <<pvars, rvars, lvars, mvars>>
vars == <<cvars, wvars, svars, tvars, avars, evars, gvars, xvars>>

\* ------------------------------------------------------- outbound_caller.py

\* The recipients the runs draw from: one number in national format, one
\* too short to be a number, one with no digits.
Recipients ==
    { [name |-> "Jane Doe", phone_number |-> "415-555-0100"],
      [name |-> "Bob Johnson", phone_number |-> "555"],
      [name |-> "Carol Brown", phone_number |-> "n/a"] }

\* phonenumbers.parse(phone_number, "US"): the parsed national number, or the
\* NumberParseException it raises.
phonenumbers_parse(phone_number) ==
    CASE phone_number = "415-555-0100" -> [raised |-> None, country |-> 1, national |-> "4155550100"]
      [] phone_number = "+14155550101" -> [raised |-> None, country |-> 1, national |-> "4155550101"]
      [] phone_number = "555" -> [raised |-> None, country |-> 1, national |-> "555"]
      [] OTHER -> [raised |-> Some("(1) The string supplied did not seem to be a phone number."),
                   country |-> 0, national |-> ""]

\* phonenumbers.is_valid_number: a US number has ten national digits.
is_valid_number(parsed) == parsed.country = 1 /\ Len(parsed.national) = 10

\* phonenumbers.format_number(parsed, E164)
format_number(parsed) == "+" \o ToString(parsed.country) \o parsed.national

\* OutboundCaller.validate_phone_number: the E.164 number, or the
\* NumberParseException re-raised to the caller.
validate_phone_number(phone_number) ==
    LET parsed == phonenumbers_parse(phone_number) IN
    IF parsed.raised # None
    THEN [raised |-> parsed.raised, number |-> ""]
    ELSE IF ~is_valid_number(parsed)
    THEN [raised |-> Some("(1) The provided number is not valid"), number |-> ""]
    ELSE [raised |-> None, number |-> format_number(parsed)]

\* What twilio_client.calls.create can do: return a call, raise a
\* TwilioException, or raise any other exception (a transport error of the
\* HTTP layer, which the client does not wrap).
CreateOutcomes == {"ok", "TwilioException", "Exception"}

\* The status the carrier reports for a call it has just created.
InitialStatuses == {"queued"}

\* The carrier-assigned identifier of the n-th call created.
CarrierSid(n) == "CA" \o ToString(n)

\* CallResult (initiated_at, a timestamp, is left out).
CallResult(recipient, call_sid, status, error) ==
    [recipient |-> recipient, call_sid |-> call_sid, status |-> status,
     completed_at |-> None, duration |-> None, error |-> error]

\* A slip: the failure record is built without error=str(e).
make_outbound_call_except_NoError(cr, recipient, e, created) ==
    LET call_result == CallResult(recipient, "", "failed", None) IN
    [call_results |-> Append(cr, call_result), result |-> Some(call_result),
     raised |-> None, created |-> created]

\* The except block of make_outbound_call (lines 152-162).
make_outbound_call_except(cr, recipient, e, created) ==
    LET call_result == CallResult(recipient, "", "failed", Some(e)) IN
    [call_results |-> Append(cr, call_result), result |-> Some(call_result),
     raised |-> None, created |-> created]

\* A slip: calls.create is reached although validation raised.
make_outbound_call_CreateFirst(cr, recipient, create, sid, st) ==
    LET validated == validate_phone_number(recipient.phone_number) IN
    IF create = "TwilioException" \/ validated.raised # None
    THEN make_outbound_call_except(cr, recipient,
             IF validated.raised # None THEN validated.raised[1] ELSE "Unable to create record",
             TRUE)
    ELSE IF create = "Exception"
    THEN [call_results |-> cr, result |-> None, raised |-> Some("Exception"), created |-> TRUE]
    ELSE LET call_result == CallResult(recipient, sid, st, None) IN
         [call_results |-> Append(cr, call_result), result |-> Some(call_result),
          raised |-> None, created |-> TRUE]

\* A slip: the success path returns its CallResult without appending it.
make_outbound_call_NoAppend(cr, recipient, create, sid, st) ==
    LET validated == validate_phone_number(recipient.phone_number) IN
    IF validated.raised # None
    THEN make_outbound_call_except(cr, recipient, validated.raised[1], FALSE)
    ELSE IF create = "TwilioException"
    THEN make_outbound_call_except(cr, recipient, "Unable to create record", TRUE)
    ELSE IF create = "Exception"
    THEN [call_results |-> cr, result |-> None, raised |-> Some("Exception"), created |-> TRUE]
    ELSE [call_results |-> cr, result |-> Some(CallResult(recipient, sid, st, None)),
          raised |-> None, created |-> TRUE]

\* OutboundCaller.make_outbound_call on the list cr: the new list, the
\* returned CallResult (None when an exception escapes), the exception that
\* escapes, and whether calls.create was invoked.
make_outbound_call(cr, recipient, create, sid, st) ==
    LET validated == validate_phone_number(recipient.phone_number) IN
    IF validated.raised # None
    THEN make_outbound_call_except(cr, recipient, validated.raised[1], FALSE)
    ELSE IF create = "TwilioException"
    THEN make_outbound_call_except(cr, recipient, "Unable to create record", TRUE)
    ELSE IF create = "Exception"
    THEN [call_results |-> cr, result |-> None, raised |-> Some("Exception"), created |-> TRUE]
    ELSE LET call_result == CallResult(recipient, sid, st, None) IN
         [call_results |-> Append(cr, call_result), result |-> Some(call_result),
          raised |-> None, created |-> TRUE]

\* The statuses a status update can report.
UpdateStatuses == {"ringing", "completed"}

\* Durations a caller may pass: None or thirty seconds.
Durations == {None, Some(30)}

\* Python's truth value of an Optional[int].
Truthy(duration) == duration # None /\ duration[1] # 0

\* The indexes of the records of cr that carry call_sid.
Matching(cr, call_sid) == {k \in 1..Len(cr) : cr[k].call_sid = call_sid}

\* The smallest element of a non-empty set of integers.
First(S) == CHOOSE k \in S : \A m \in S : k <= m

\* The body of update_call_result's loop for the record at index k.
update_record(cr, k, status, duration) ==
    [cr EXCEPT ![k] = [@ EXCEPT
        !.status = status,
        !.duration = IF Truthy(duration) THEN duration ELSE @,
        !.completed_at = IF status \in {"completed", "failed", "busy", "no-answer"}
                         THEN Some("now") ELSE @]]

\* A slip: with no matching record the first record is updated.
update_call_result_Fallback(cr, call_sid, status, duration) ==
    IF Matching(cr, call_sid) # {}
    THEN update_record(cr, First(Matching(cr, call_sid)), status, duration)
    ELSE IF cr # <<>> THEN update_record(cr, 1, status, duration) ELSE cr

\* A slip: the loop does not break, so every matching record is updated.
update_call_result_All(cr, call_sid, status, duration) ==
    [k \in 1..Len(cr) |->
        IF cr[k].call_sid = call_sid
        THEN update_record(cr, k, status, duration)[k]
        ELSE cr[k]]

\* OutboundCaller.update_call_result: the first record whose call_sid
\* matches is updated, then the loop breaks.
update_call_result(cr, call_sid, status, duration) ==
    IF Matching(cr, call_sid) = {}
    THEN cr
    ELSE update_record(cr, First(Matching(cr, call_sid)), status, duration)

\* A slip: the handler of make_bulk_calls logs the error and records nothing.
bulk_except_Drop(res, recipient, e) == res

\* The except block of make_bulk_calls (lines 189-198): the error_result is
\* appended to results alone, not to call_results.
bulk_except(res, recipient, e) ==
    Append(res, [ref |-> 0, own |-> Some(CallResult(recipient, "", "error", Some(e)))])

\* results.append(result): the returned CallResult is the object that
\* make_outbound_call appended last to call_results.
bulk_append(res, cr) == Append(res, [ref |-> Len(cr), own |-> None])

\* The CallResult an entry of results stands for.
Deref(cr, entry) == IF entry.own # None THEN entry.own[1] ELSE cr[entry.ref]

\* A slip: the campaign stops at the first exception.
bulk_after_StopOnError(idx, n, exc) ==
    IF exc # None THEN "done"
    ELSE IF idx < n THEN "sleep" ELSE "done"

\* Where make_bulk_calls goes after the dispatch of recipient idx of n:
\* to the sleep when the dispatch returned and idx is not the last, to the
\* next recipient when it raised, to the return after the last.
bulk_after(idx, n, exc) ==
    IF idx >= n THEN "done"
    ELSE IF exc # None THEN "dispatch" ELSE "sleep"

\* ---------------------------------------------------------- webhook_handler.py

\* update_outbound_caller_status: the body is `pass`.
update_outbound_caller_status(cr, call_sid, status, duration) == cr

\* ------------------------------------------------------------------ actions

CallerInit ==
    /\ call_results = <<>>
    /\ bulk_pc = "idle"
    /\ recipients = <<>>
    /\ i = 1
    /\ results = <<>>
    /\ attempts = <<>>
    /\ create_log = <<>>
    /\ delays = 0
    /\ raised = None
    /\ response = None
    /\ updates = 0
    /\ last_op = [op |-> "init", call_sid |-> "", status |-> "", result |-> None]

WatcherIdle ==
    /\ w_pc = "not_started"
    /\ now = 0
    /\ wake_at = 0
    /\ callStatus = "none"
    /\ disconnect_reason = "none"
    /\ picked_up = FALSE
    /\ outcome = "waiting"
    /\ shutdown_count = 0
    /\ session_started = FALSE
    /\ active_in_time = FALSE
    /\ ever_active = FALSE
    /\ ever_disc = FALSE

\* The number of calls.create requests decides the next carrier identifier.
NextSid == CarrierSid(Len(create_log) + 1)

\* make_single_call (make_calls.py): one make_outbound_call on the caller;
\* an exception that make_outbound_call lets escape reaches the caller.
SingleCall ==
    /\ UNCHANGED <<wvars, svars, tvars, avars, evars, gvars, xvars>>
    /\ bulk_pc = "idle"
    /\ Len(attempts) < MaxCalls
    /\ \E recipient \in Recipients, create \in CreateOutcomes, st \in InitialStatuses :
        LET r == make_outbound_call(call_results, recipient, create, NextSid, st) IN
        /\ call_results' = r.call_results
        /\ attempts' = Append(attempts, recipient)
        /\ create_log' = IF r.created THEN Append(create_log, recipient) ELSE create_log
        /\ raised' = r.raised
        /\ last_op' = [op |-> "make_outbound_call",
                       call_sid |-> IF r.created /\ create = "ok" THEN NextSid ELSE "",
                       status |-> IF r.created /\ create = "ok" THEN st ELSE "",
                       result |-> r.result]
    /\ UNCHANGED <<bulk_pc, recipients, i, results, delays, response, updates>>

\* make_bulk_calls is entered with a list of recipients.
BulkStart ==
    /\ UNCHANGED <<wvars, svars, tvars, avars, evars, gvars, xvars>>
    /\ bulk_pc = "idle"
    /\ \E n \in 0..(MaxCalls - Len(attempts)) :
         \E rs \in [1..n -> Recipients] :
            /\ recipients' = rs
            /\ bulk_pc' = IF n = 0 THEN "done" ELSE "dispatch"
            /\ last_op' = [op |-> "make_bulk_calls", call_sid |-> "", status |-> "",
                           result |-> None]
    /\ i' = 1
    /\ results' = <<>>
    /\ delays' = 0
    /\ UNCHANGED <<call_results, attempts, create_log, raised, response, updates>>

\* One iteration of make_bulk_calls' loop up to its await of the sleep.
BulkDispatch ==
    /\ UNCHANGED <<wvars, svars, tvars, avars, evars, gvars, xvars>>
    /\ bulk_pc = "dispatch"
    /\ \E create \in CreateOutcomes, st \in InitialStatuses :
        LET recipient == recipients[i]
            r == make_outbound_call(call_results, recipient, create, NextSid, st) IN
        /\ call_results' = r.call_results
        /\ attempts' = Append(attempts, recipient)
        /\ create_log' = IF r.created THEN Append(create_log, recipient) ELSE create_log
        /\ results' = IF r.raised = None
                      THEN bulk_append(results, r.call_results)
                      ELSE bulk_except(results, recipient, r.raised[1])
        /\ bulk_pc' = bulk_after(i, Len(recipients), r.raised)
        /\ i' = IF bulk_after(i, Len(recipients), r.raised) = "dispatch" THEN i + 1 ELSE i
        /\ last_op' = [op |-> "bulk_dispatch",
                       call_sid |-> IF r.created /\ create = "ok" THEN NextSid ELSE "",
                       status |-> IF r.created /\ create = "ok" THEN st ELSE "",
                       result |-> r.result]
    /\ UNCHANGED <<recipients, delays, raised, response, updates>>

\* asyncio.sleep(delay_between_calls) returns and the loop goes on.
BulkWake ==
    /\ UNCHANGED <<wvars, svars, tvars, avars, evars, gvars, xvars>>
    /\ bulk_pc = "sleep"
    /\ bulk_pc' = "dispatch"
    /\ i' = i + 1
    /\ delays' = delays + 1
    /\ last_op' = [op |-> "bulk_sleep", call_sid |-> "", status |-> "", result |-> None]
    /\ UNCHANGED <<call_results, recipients, results, attempts, create_log, raised,
                   response, updates>>

\* The call identifiers a status update may name: those the carrier has
\* handed out, the empty one, and one it never assigned.
SidsNamed == {CarrierSid(n) : n \in 1..Len(create_log)} \cup {"", "CAunknown"}

\* OutboundCaller.update_call_result, called by the holder of the caller.
UpdateCallResult ==
    /\ UNCHANGED <<wvars, svars, tvars, avars, evars, gvars, xvars>>
    /\ updates < MaxUpdates
    /\ \E call_sid \in SidsNamed, status \in UpdateStatuses, duration \in Durations :
        /\ call_results' = update_call_result(call_results, call_sid, status, duration)
        /\ last_op' = [op |-> "update_call_result", call_sid |-> call_sid,
                       status |-> status, result |-> None]
    /\ updates' = updates + 1
    /\ UNCHANGED <<bulk_pc, recipients, i, results, attempts, create_log, delays,
                   raised, response>>

\* call_status_webhook: POST /webhook/call-status.
CallStatusWebhook ==
    /\ UNCHANGED <<wvars, svars, tvars, avars, evars, gvars, xvars>>
    /\ updates < MaxUpdates
    /\ updates' = updates + 1
    /\ \E call_sid \in SidsNamed, status \in UpdateStatuses :
        /\ call_results' = update_outbound_caller_status(call_results, call_sid, status, None)
        /\ last_op' = [op |-> "call_status_webhook", call_sid |-> call_sid,
                       status |-> status, result |-> None]
    /\ response' = Some("received")
    /\ UNCHANGED <<bulk_pc, recipients, i, results, attempts, create_log, delays,
                   raised>>

\* run_voice_pipeline_agent has not been called.
PipelineIdle ==
    /\ session_pc = "not_called"
    /\ session_running = FALSE
    /\ greeting = "none"

\* No recording webhook has arrived.
RecordingIdle ==
    /\ recording_request = [CallSid |-> None, RecordingSid |-> None,
                            RecordingUrl |-> None, RecordingStatus |-> None]
    /\ recording_response = None

\* No contacts file has been read.
LoaderIdle ==
    /\ file = [ext |-> "", state |-> "ok", rows |-> <<>>]
    /\ loaded = None

\* make_calls.py has not been run.
CliIdle ==
    /\ argv = [command |-> None]
    /\ exit_status = None

\* Nothing but the subsystem under study has acted.
XIdle ==
    /\ PipelineIdle
    /\ RecordingIdle
    /\ LoaderIdle
    /\ CliIdle

\* No summary has been asked for.
SummaryIdle ==
    /\ summary_records = <<>>
    /\ summary = None

\* No call-setup request has arrived.
TwimlIdle ==
    /\ twiml_request = [AnsweredBy |-> None, CallStatus |-> None, CallSid |-> None]
    /\ twiml_response = None
    /\ LIVEKIT_URL = Some("wss://example.livekit.cloud")

\* Python's truth value of what os.getenv gives: false for None and for "".
TruthyStr(value) == value # None /\ value[1] # ""

\* The names initiate_call reads from the environment.
AppConfigNames ==
    {"LIVEKIT_URL", "LIVEKIT_API_KEY", "LIVEKIT_API_SECRET", "SIP_OUTBOUND_TRUNK_ID"}

\* An environment in which every name initiate_call reads has a value.
AppConfigured == [v \in AppConfigNames |-> Some("value")]

\* app.py at import: call_status = {} and no request handled yet.
AppIdle ==
    /\ call_status = <<>>
    /\ task_pc = <<>>
    /\ http_response = [op |-> "none", code |-> 0, call_id |-> "", body |-> None]
    /\ app_op = [op |-> "init", call_id |-> "", failure |-> None]

\* The API process started in a complete environment.
AppInit ==
    /\ AppIdle
    /\ app_environ = AppConfigured

\* The names _validate_credentials requires, in its order.
required_vars ==
    <<"TWILIO_ACCOUNT_SID", "TWILIO_AUTH_TOKEN", "TWILIO_PHONE_NUMBER",
      "LIVEKIT_API_KEY", "LIVEKIT_API_SECRET", "LIVEKIT_URL", "WEBHOOK_BASE_URL">>

\* The set of the required names.
RequiredNames == {required_vars[k] : k \in 1..Len(required_vars)}

\* The environment of a caller that was constructed: every name has a value.
EnvConfigured ==
    /\ environ = [v \in RequiredNames |-> Some("value")]
    /\ constructed = None

\* No session runs and no tool has been called.
ToolsIdle ==
    /\ in_room = FALSE
    /\ tool_log = <<>>

Init ==
    /\ XIdle
    /\ CallerInit
    /\ WatcherIdle
    /\ SummaryIdle
    /\ TwimlIdle
    /\ AppInit
    /\ EnvConfigured
    /\ ToolsIdle

\* The OutboundCaller, its campaign runner and the status webhook.
Next ==
    \/ SingleCall
    \/ BulkStart
    \/ BulkDispatch
    \/ BulkWake
    \/ UpdateCallResult
    \/ CallStatusWebhook

Spec == Init /\ [][Next]_vars

\* ------------------------------------------------------------------ agent.py

\* The ceiling of the pickup wait in ticks of the poll interval.
CeilingTicks == PICKUP_CEILING_S * POLLS_PER_SECOND

\* Values of the participant's sip.callStatus attribute ("none": not set).
CallStatuses == {"none", "ringing", "active", "hangup"}

\* Values of participant.disconnect_reason ("none": not disconnected).
DisconnectReasons == {"none", "USER_REJECTED", "USER_UNAVAILABLE", "CLIENT_INITIATED"}

\* A slip: a watcher that did not see the pickup goes back to sleep and
\* polls again.
after_loop_PollAgain(picked) ==
    IF ~picked
    THEN [pc |-> "sleeping", picked_up |-> FALSE, shutdowns |-> 0,
          outcome |-> "waiting", session |-> FALSE]
    ELSE [pc |-> "session", picked_up |-> TRUE, shutdowns |-> 0,
          outcome |-> "active", session |-> TRUE]

\* Lines 81-87: after the loop, a watcher that did not see the pickup shuts
\* the job down and returns; otherwise run_voice_pipeline_agent is started.
after_loop_NoShutdown(picked) ==
    IF ~picked
    THEN [pc |-> "returned", picked_up |-> FALSE, shutdowns |-> 0,
          outcome |-> "timed_out", session |-> FALSE]
    ELSE [pc |-> "session", picked_up |-> TRUE, shutdowns |-> 0,
          outcome |-> "active", session |-> TRUE]

after_loop(picked) ==
    IF ~picked
    THEN [pc |-> "returned", picked_up |-> FALSE, shutdowns |-> 1,
          outcome |-> "timed_out", session |-> FALSE]
    ELSE [pc |-> "session", picked_up |-> TRUE, shutdowns |-> 0,
          outcome |-> "active", session |-> TRUE]

\* A slip: the disconnect reasons are tested before the call status.
poll_step_ReasonFirst(cs, dr) ==
    IF dr = "USER_REJECTED"
    THEN [pc |-> "returned", picked_up |-> FALSE, shutdowns |-> 1,
          outcome |-> "rejected", session |-> FALSE]
    ELSE IF dr = "USER_UNAVAILABLE"
    THEN [pc |-> "returned", picked_up |-> FALSE, shutdowns |-> 1,
          outcome |-> "unavailable", session |-> FALSE]
    ELSE IF cs = "active"
    THEN after_loop(TRUE)
    ELSE [pc |-> "sleeping", picked_up |-> FALSE, shutdowns |-> 0,
          outcome |-> "waiting", session |-> FALSE]

\* A slip: the rejected and unavailable branches shut down without returning.
poll_step_NoReturn(cs, dr) ==
    IF cs = "active"
    THEN after_loop(TRUE)
    ELSE IF dr = "USER_REJECTED"
    THEN [pc |-> "sleeping", picked_up |-> FALSE, shutdowns |-> 1,
          outcome |-> "rejected", session |-> FALSE]
    ELSE IF dr = "USER_UNAVAILABLE"
    THEN [pc |-> "sleeping", picked_up |-> FALSE, shutdowns |-> 1,
          outcome |-> "unavailable", session |-> FALSE]
    ELSE [pc |-> "sleeping", picked_up |-> FALSE, shutdowns |-> 0,
          outcome |-> "waiting", session |-> FALSE]

\* One execution of the loop body (lines 66-79) on the values it reads: the
\* break on "active" runs on to the code after the loop, the two disconnect
\* reasons shut down and return, anything else goes to the sleep.
poll_step(cs, dr) ==
    IF cs = "active"
    THEN after_loop(TRUE)
    ELSE IF dr = "USER_REJECTED"
    THEN [pc |-> "returned", picked_up |-> FALSE, shutdowns |-> 1,
          outcome |-> "rejected", session |-> FALSE]
    ELSE IF dr = "USER_UNAVAILABLE"
    THEN [pc |-> "returned", picked_up |-> FALSE, shutdowns |-> 1,
          outcome |-> "unavailable", session |-> FALSE]
    ELSE [pc |-> "sleeping", picked_up |-> FALSE, shutdowns |-> 0,
          outcome |-> "waiting", session |-> FALSE]

\* entrypoint reaches line 63 (start_time = perf_counter()) with the
\* participant that wait_for_participant returned, in whatever state it is.
WatcherStart ==
    /\ UNCHANGED <<cvars, svars, tvars, avars, evars, gvars, xvars>>
    /\ w_pc = "not_started"
    /\ w_pc' = "loop"
    /\ now' = 0
    /\ \E cs \in CallStatuses, dr \in DisconnectReasons :
        /\ callStatus' = cs
        /\ disconnect_reason' = dr
        /\ active_in_time' = (cs = "active")
        /\ ever_active' = (cs = "active")
        /\ ever_disc' = (dr \in {"USER_REJECTED", "USER_UNAVAILABLE"})
    /\ UNCHANGED <<wake_at, picked_up, outcome, shutdown_count, session_started>>

\* The loop condition holds and the body runs, up to its await or its exit.
WatcherPoll ==
    /\ UNCHANGED <<cvars, svars, tvars, avars, evars, gvars, xvars>>
    /\ w_pc = "loop"
    /\ now < CeilingTicks
    /\ LET r == poll_step(callStatus, disconnect_reason) IN
        /\ w_pc' = r.pc
        /\ picked_up' = r.picked_up
        /\ outcome' = IF r.outcome = "waiting" THEN outcome ELSE r.outcome
        /\ shutdown_count' = shutdown_count + r.shutdowns
        /\ session_started' = r.session
    /\ wake_at' = now + 1
    /\ UNCHANGED <<now, callStatus, disconnect_reason, active_in_time, ever_active, ever_disc>>

\* The loop condition fails: the ceiling has elapsed.
WatcherLoopExit ==
    /\ UNCHANGED <<cvars, svars, tvars, avars, evars, gvars, xvars>>
    /\ w_pc = "loop"
    /\ now >= CeilingTicks
    /\ LET r == after_loop(picked_up) IN
        /\ w_pc' = r.pc
        /\ picked_up' = r.picked_up
        /\ outcome' = r.outcome
        /\ shutdown_count' = shutdown_count + r.shutdowns
        /\ session_started' = r.session
    /\ UNCHANGED <<now, wake_at, callStatus, disconnect_reason, active_in_time,
                   ever_active, ever_disc>>

\* asyncio.sleep(0.2) returns, at its due time or up to MaxOversleep late.
WatcherWake ==
    /\ UNCHANGED <<cvars, svars, tvars, avars, evars, gvars, xvars>>
    /\ w_pc = "sleeping"
    /\ now >= wake_at
    /\ w_pc' = "loop"
    /\ UNCHANGED <<now, wake_at, callStatus, disconnect_reason, picked_up, outcome,
                   shutdown_count, session_started, active_in_time, ever_active, ever_disc>>

\* The clock advances while the watcher is suspended in its sleep.
Tick ==
    /\ UNCHANGED <<cvars, svars, tvars, avars, evars, gvars, xvars>>
    /\ w_pc = "sleeping"
    /\ now < wake_at + MaxOversleep
    /\ now' = now + 1
    /\ UNCHANGED <<w_pc, wake_at, callStatus, disconnect_reason, picked_up, outcome,
                   shutdown_count, session_started, active_in_time, ever_active, ever_disc>>

\* The room updates the participant's sip.callStatus attribute; the event
\* loop delivers it while the watcher is suspended.
EnvCallStatus ==
    /\ UNCHANGED <<cvars, svars, tvars, avars, evars, gvars, xvars>>
    /\ w_pc = "sleeping"
    /\ \E cs \in CallStatuses \ {callStatus} :
        /\ callStatus' = cs
        /\ active_in_time' = (cs = "active" /\ now < CeilingTicks)
        /\ ever_active' = (ever_active \/ cs = "active")
    /\ UNCHANGED <<w_pc, now, wake_at, disconnect_reason, picked_up, outcome,
                   shutdown_count, session_started, ever_disc>>

\* The participant disconnects, or its disconnect reason changes.
EnvDisconnect ==
    /\ UNCHANGED <<cvars, svars, tvars, avars, evars, gvars, xvars>>
    /\ w_pc = "sleeping"
    /\ \E dr \in DisconnectReasons \ {disconnect_reason} :
        /\ disconnect_reason' = dr
        /\ ever_disc' = (ever_disc \/ dr \in {"USER_REJECTED", "USER_UNAVAILABLE"})
    /\ UNCHANGED <<w_pc, now, wake_at, callStatus, picked_up, outcome,
                   shutdown_count, session_started, active_in_time, ever_active>>

\* The pickup watcher of entrypoint and the participant it polls.
WatcherNext ==
    \/ WatcherStart
    \/ WatcherPoll
    \/ WatcherLoopExit
    \/ WatcherWake
    \/ Tick
    \/ EnvCallStatus
    \/ EnvDisconnect

SpecWatcher == Init /\ [][WatcherNext]_vars

\* The event loop runs the watcher whenever it can run, and the clock
\* advances while the watcher sleeps.
WatcherFairness ==
    /\ WF_vars(WatcherPoll)
    /\ WF_vars(WatcherLoopExit)
    /\ WF_vars(WatcherWake)
    /\ WF_vars(Tick)

SpecWatcherFair == SpecWatcher /\ WatcherFairness

\* ------------------------------------------ get_campaign_summary (pure)

\* The number of records a summary is taken of.
MaxSummaryRecords == 4

\* The statuses of the records a summary is taken of.
SummaryStatuses == {"completed", "failed", "no-answer", "queued"}

\* The number of records of cr with the given status.
CountStatus(cr, status) == Cardinality({k \in 1..Len(cr) : cr[k].status = status})

\* f"{x:.1f}" of x = (num / den) * 100, in tenths: the nearest tenth, a tie
\* going to the even one.
RoundTenths(num, den) ==
    LET q == (1000 * num) \div den
        r == (1000 * num) % den IN
    IF 2 * r < den THEN q
    ELSE IF 2 * r > den THEN q + 1
    ELSE IF q % 2 = 0 THEN q ELSE q + 1

\* The text of a number given in tenths, followed by the percent sign.
FormatTenths(x) == ToString(x \div 10) \o "." \o ToString(x % 10) \o "%"

\* A slip: the rate is cut to one decimal, not rounded.
get_campaign_summary_Truncate(cr) ==
    IF cr = <<>>
    THEN [message |-> "No calls made yet"]
    ELSE [total_calls |-> Len(cr),
          success_rate |-> FormatTenths((1000 * CountStatus(cr, "completed")) \div Len(cr)),
          status_breakdown |->
              [st \in {cr[k].status : k \in 1..Len(cr)} |-> CountStatus(cr, st)],
          successful_calls |-> CountStatus(cr, "completed")]

\* OutboundCaller.get_campaign_summary on the list cr.
get_campaign_summary(cr) ==
    IF cr = <<>>
    THEN [message |-> "No calls made yet"]
    ELSE [total_calls |-> Len(cr),
          success_rate |-> FormatTenths(RoundTenths(CountStatus(cr, "completed"), Len(cr))),
          status_breakdown |->
              [st \in {cr[k].status : k \in 1..Len(cr)} |-> CountStatus(cr, st)],
          successful_calls |-> CountStatus(cr, "completed")]

\* A caller holding any records with any statuses.
SummaryInit ==
    /\ XIdle
    /\ CallerInit
    /\ WatcherIdle
    /\ TwimlIdle
    /\ AppInit
    /\ EnvConfigured
    /\ ToolsIdle
    /\ \E n \in 0..MaxSummaryRecords :
         \E sts \in [1..n -> SummaryStatuses] :
            summary_records =
                [k \in 1..n |->
                    [CallResult([name |-> "Jane Doe", phone_number |-> "415-555-0100"],
                                IF sts[k] = "failed" THEN "" ELSE CarrierSid(k), sts[k],
                                IF sts[k] = "failed" THEN Some("Unable to create record")
                                ELSE None)
                     EXCEPT !.completed_at =
                                IF sts[k] \in {"completed", "no-answer"}
                                THEN Some("now") ELSE None]]
    /\ summary = None

\* get_campaign_summary is called.
GetCampaignSummary ==
    /\ summary = None
    /\ summary' = Some(get_campaign_summary(summary_records))
    /\ UNCHANGED <<cvars, wvars, summary_records, tvars, avars, evars, gvars, xvars>>

SummaryNext == GetCampaignSummary

SpecSummary == SummaryInit /\ [][SummaryNext]_vars

\* ------------------------------------------ outbound_call_handler (pure)

\* The values of the AnsweredBy parameter; None when the request has none.
AnsweredByValues == {None, Some("human"), Some("machine_start"), Some("unknown")}

\* The values of the CallStatus parameter; None when the request has none.
CallStatusValues ==
    {None, Some("ringing"), Some("in-progress"), Some("completed"),
     Some("no-answer"), Some("busy")}

\* The values of the CallSid parameter; None when the request has none.
CallSidValues == {None, Some(CarrierSid(1)), Some(CarrierSid(2))}

\* What os.getenv('LIVEKIT_URL') gives: None when the name is not set.
LiveKitUrlValues == {None, Some("wss://example.livekit.cloud")}

\* str() of an optional string inside an f-string.
FormatOptional(x) == IF x = None THEN "None" ELSE x[1]

\* response.say(text).
Say(text) == [verb |-> "Say", text |-> text, url |-> ""]

\* response.hangup().
Hangup == [verb |-> "Hangup", text |-> "", url |-> ""]

\* response.connect() with connect.stream(url=...).
ConnectStream(url) == [verb |-> "Connect", text |-> "", url |-> url]

\* outbound_call_handler: the TwiML verbs returned, or the exception raised.
outbound_call_handler(req, livekit_url) ==
    IF req.AnsweredBy = Some("machine_start")
    THEN [raised |-> None,
          verbs |-> <<Say("Hello! This is an automated message from AI Entity. We'll try calling back later."),
                      Hangup>>]
    ELSE IF req.CallStatus = Some("in-progress")
    THEN LET room_name == "outbound-" \o FormatOptional(req.CallSid) IN
         IF livekit_url = None
         THEN [raised |-> Some("AttributeError"), verbs |-> <<>>]
         ELSE [raised |-> None,
               verbs |-> <<ConnectStream("wss://" \o livekit_url[1] \o "/sip/" \o room_name)>>]
    ELSE [raised |-> None,
          verbs |-> <<Say("We're unable to connect your call at this time. Please try again later."),
                      Hangup>>]

\* Any call-setup request reaching a webhook server started in any environment.
TwimlInit ==
    /\ XIdle
    /\ CallerInit
    /\ WatcherIdle
    /\ SummaryIdle
    /\ AppInit
    /\ EnvConfigured
    /\ ToolsIdle
    /\ \E ab \in AnsweredByValues, cs \in CallStatusValues, sid \in CallSidValues :
          twiml_request = [AnsweredBy |-> ab, CallStatus |-> cs, CallSid |-> sid]
    /\ LIVEKIT_URL \in LiveKitUrlValues
    /\ twiml_response = None

\* POST /twiml/outbound is handled.
OutboundCallHandler ==
    /\ twiml_response = None
    /\ twiml_response' = Some(outbound_call_handler(twiml_request, LIVEKIT_URL))
    /\ UNCHANGED <<cvars, wvars, svars, twiml_request, LIVEKIT_URL, avars, evars, gvars, xvars>>

TwimlNext == OutboundCallHandler

SpecTwiml == TwimlInit /\ [][TwimlNext]_vars

\* ------------------------------------------------- management API (app.py)

\* The number of POST /call requests.
MaxApiCalls == 2

\* The bodies of the POST /call requests.
CallRequests ==
    {[phone_number |-> "+14155550100", customer_name |-> Some("Jane Doe"),
      custom_instructions |-> None],
     [phone_number |-> "555", customer_name |-> None,
      custom_instructions |-> Some("Be brief")]}

\* The environments the API process is started in: complete, one name not
\* set, or LIVEKIT_URL set to the empty string.
AppEnvironments ==
    {AppConfigured}
       \cup {[AppConfigured EXCEPT ![v] = None] : v \in AppConfigNames}
       \cup {[AppConfigured EXCEPT !["LIVEKIT_URL"] = Some("")]}

\* What an awaited LiveKit request does: it returns, or raises an Exception.
AwaitOutcomes == {"ok", "error"}

\* str(uuid.uuid4()) of the n-th request.
CallId(n) == "id" \o ToString(n)

\* The ids a GET /call/{call_id} names.
CallIdsNamed == {CallId(n) : n \in 1..MaxApiCalls} \cup {"unknown"}

\* A slip: POST /call answers without storing the record.
make_call_NoInsert(store, call_id, request) == store

\* make_call: the store after call_status[call_id] = {...}.
make_call(store, call_id, request) ==
    (call_id :> [call_id |-> call_id,
                 phone_number |-> request.phone_number,
                 customer_name |-> request.customer_name,
                 custom_instructions |-> request.custom_instructions,
                 status |-> "initiated",
                 message |-> "Call initiated",
                 room_name |-> None,
                 error |-> None]) @@ store

\* The CallResponse make_call returns.
CallResponse(call_id) ==
    [call_id |-> call_id, status |-> "initiated", message |-> "Call initiated successfully"]

\* get_call_status: 404 for an id not in the store, else the record.
get_call_status(store, call_id) ==
    IF call_id \notin DOMAIN store
    THEN [code |-> 404, body |-> None]
    ELSE [code |-> 200, body |-> Some(store[call_id])]

\* A slip: the handler records nothing and lets the exception go.
initiate_call_except_Reraise(store, call_id, e) ==
    [call_status |-> store, pc |-> "raised"]

\* A slip: the handler drops the record of the failed call.
initiate_call_except_Delete(store, call_id, e) ==
    [call_status |-> [k \in DOMAIN store \ {call_id} |-> store[k]], pc |-> "returned"]

\* A slip: the handler marks every call of the store as failed.
initiate_call_except_All(store, call_id, e) ==
    [call_status |-> [k \in DOMAIN store |->
                         [store[k] EXCEPT !.status = "failed", !.error = Some(e)]],
     pc |-> "returned"]

\* initiate_call's except Exception handler, e being str(e).
initiate_call_except(store, call_id, e) ==
    [call_status |-> [store EXCEPT ![call_id].status = "failed",
                                   ![call_id].error = Some(e)],
     pc |-> "returned"]

\* initiate_call from its start to the await of create_room.
initiate_call_start(store, call_id, env) ==
    LET connecting == [store EXCEPT ![call_id].status = "connecting"] IN
    IF \E v \in AppConfigNames : ~TruthyStr(env[v])
    THEN initiate_call_except(connecting, call_id, "Missing LiveKit configuration")
    ELSE [call_status |-> connecting, pc |-> "create_room"]

\* A slip: the room name is not recorded with the dialing status.
initiate_call_room_NoRoomName(store, call_id, awaited) ==
    IF awaited = "error"
    THEN initiate_call_except(store, call_id, "create_room failed")
    ELSE [call_status |-> [store EXCEPT ![call_id].status = "dialing"],
          pc |-> "create_sip_participant"]

\* initiate_call from the end of create_room to the await of
\* create_sip_participant.
initiate_call_room(store, call_id, awaited) ==
    IF awaited = "error"
    THEN initiate_call_except(store, call_id, "create_room failed")
    ELSE [call_status |-> [store EXCEPT ![call_id].status = "dialing",
                                        ![call_id].room_name = Some("call-" \o call_id)],
          pc |-> "create_sip_participant"]

\* initiate_call from the end of create_sip_participant to its return.
initiate_call_sip(store, call_id, awaited) ==
    IF awaited = "error"
    THEN initiate_call_except(store, call_id, "create_sip_participant failed")
    ELSE [call_status |-> [store EXCEPT ![call_id].status = "connected",
                                        ![call_id].message = "Call connected successfully"],
          pc |-> "returned"]

\* The API process started in any of the environments.
AppSpecInit ==
    /\ XIdle
    /\ CallerInit
    /\ WatcherIdle
    /\ SummaryIdle
    /\ TwimlIdle
    /\ EnvConfigured
    /\ ToolsIdle
    /\ AppIdle
    /\ app_environ \in AppEnvironments

\* POST /call.
MakeCall ==
    /\ Cardinality(DOMAIN call_status) < MaxApiCalls
    /\ \E request \in CallRequests :
          LET call_id == CallId(Cardinality(DOMAIN task_pc) + 1) IN
          /\ call_status' = make_call(call_status, call_id, request)
          /\ task_pc' = (call_id :> "scheduled") @@ task_pc
          /\ http_response' = [op |-> "make_call", code |-> 200, call_id |-> call_id,
                               body |-> Some(CallResponse(call_id))]
          /\ app_op' = [op |-> "make_call", call_id |-> call_id, failure |-> None]
    /\ UNCHANGED <<cvars, wvars, svars, tvars, app_environ, evars, gvars, xvars>>

\* GET /call/{call_id}.
GetCallStatus ==
    /\ \E call_id \in CallIdsNamed :
          LET r == get_call_status(call_status, call_id) IN
          /\ http_response' = [op |-> "get_call_status", code |-> r.code,
                               call_id |-> call_id, body |-> r.body]
          /\ app_op' = [op |-> "get_call_status", call_id |-> call_id, failure |-> None]
    /\ UNCHANGED <<cvars, wvars, svars, tvars, call_status, task_pc, app_environ, evars, gvars, xvars>>

\* GET /calls.
ListCalls ==
    /\ http_response' = [op |-> "list_calls", code |-> 200, call_id |-> "",
                         body |-> Some([calls |-> call_status])]
    /\ app_op' = [op |-> "list_calls", call_id |-> "", failure |-> None]
    /\ UNCHANGED <<cvars, wvars, svars, tvars, call_status, task_pc, app_environ, evars, gvars, xvars>>

\* The background task of a call runs up to its first await.
InitiateCallStart ==
    /\ \E call_id \in DOMAIN task_pc :
          /\ task_pc[call_id] = "scheduled"
          /\ LET r == initiate_call_start(call_status, call_id, app_environ) IN
             /\ call_status' = r.call_status
             /\ task_pc' = [task_pc EXCEPT ![call_id] = r.pc]
             /\ app_op' = [op |-> "initiate_call", call_id |-> call_id,
                           failure |-> IF r.pc = "create_room" THEN None
                                       ELSE Some("Missing LiveKit configuration")]
    /\ UNCHANGED <<cvars, wvars, svars, tvars, http_response, app_environ, evars, gvars, xvars>>

\* create_room completes and the task runs up to its second await.
InitiateCallRoom ==
    /\ \E call_id \in DOMAIN task_pc, awaited \in AwaitOutcomes :
          /\ task_pc[call_id] = "create_room"
          /\ LET r == initiate_call_room(call_status, call_id, awaited) IN
             /\ call_status' = r.call_status
             /\ task_pc' = [task_pc EXCEPT ![call_id] = r.pc]
             /\ app_op' = [op |-> "initiate_call", call_id |-> call_id,
                           failure |-> IF awaited = "ok" THEN None
                                       ELSE Some("create_room failed")]
    /\ UNCHANGED <<cvars, wvars, svars, tvars, http_response, app_environ, evars, gvars, xvars>>

\* create_sip_participant completes and the task runs to its end.
InitiateCallSip ==
    /\ \E call_id \in DOMAIN task_pc, awaited \in AwaitOutcomes :
          /\ task_pc[call_id] = "create_sip_participant"
          /\ LET r == initiate_call_sip(call_status, call_id, awaited) IN
             /\ call_status' = r.call_status
             /\ task_pc' = [task_pc EXCEPT ![call_id] = r.pc]
             /\ app_op' = [op |-> "initiate_call", call_id |-> call_id,
                           failure |-> IF awaited = "ok" THEN None
                                       ELSE Some("create_sip_participant failed")]
    /\ UNCHANGED <<cvars, wvars, svars, tvars, http_response, app_environ, evars, gvars, xvars>>

AppNext ==
    \/ MakeCall
    \/ GetCallStatus
    \/ ListCalls
    \/ InitiateCallStart
    \/ InitiateCallRoom
    \/ InitiateCallSip

SpecApp == AppSpecInit /\ [][AppNext]_vars

\* ------------------------------------------------ the two record stores

\* The process is the command-line caller: app.py is not loaded in it.
CallerProcess == app_op.op = "init"

\* The process is the API server: it constructs no OutboundCaller.
ApiProcess == last_op.op = "init"

\* A process runs the caller or the API, never both.
StoreNext ==
    \/ CallerProcess /\ SingleCall
    \/ CallerProcess /\ BulkStart
    \/ CallerProcess /\ BulkDispatch
    \/ CallerProcess /\ BulkWake
    \/ CallerProcess /\ UpdateCallResult
    \/ CallerProcess /\ CallStatusWebhook
    \/ ApiProcess /\ MakeCall
    \/ ApiProcess /\ GetCallStatus
    \/ ApiProcess /\ ListCalls
    \/ ApiProcess /\ InitiateCallStart
    \/ ApiProcess /\ InitiateCallRoom
    \/ ApiProcess /\ InitiateCallSip

SpecStore == Init /\ [][StoreNext]_vars

\* ------------------------------------------- OutboundCaller.__init__ (pure)

\* What the environment holds for a name: nothing, the empty string, a value.
EnvValues == {None, Some(""), Some("value")}

\* What Client(account_sid, auth_token) does: it returns, or raises.
ClientOutcomes == {"ok", "error"}

\* ', '.join(names).
RECURSIVE JoinComma(_)
JoinComma(names) ==
    IF names = <<>> THEN ""
    ELSE IF Len(names) = 1 THEN names[1]
    ELSE names[1] \o ", " \o JoinComma(SubSeq(names, 2, Len(names)))

\* A slip: only the names that are not set count as missing.
missing_vars_UnsetOnly(env) ==
    LET absent(v) == env[v] = None IN SelectSeq(required_vars, absent)

\* [var for var in required_vars if not os.getenv(var)].
missing_vars(env) ==
    LET absent(v) == ~TruthyStr(env[v]) IN SelectSeq(required_vars, absent)

\* _validate_credentials: the ValueError it raises, if any.
validate_credentials(env) ==
    LET missing == missing_vars(env) IN
    IF missing # <<>>
    THEN [raised |-> Some("ValueError"),
          message |-> "Missing required environment variables: " \o JoinComma(missing)]
    ELSE [raised |-> None, message |-> ""]

\* _initialize_twilio: the client it stores, or the exception it lets go on.
initialize_twilio(client) ==
    IF client = "error"
    THEN [raised |-> Some("Exception"), twilio_client |-> None]
    ELSE [raised |-> None, twilio_client |-> Some("Client")]

\* OutboundCaller.__init__ in the environment env.
OutboundCaller_init(env, client) ==
    LET v == validate_credentials(env)
        t == initialize_twilio(client) IN
    IF v.raised # None
    THEN [raised |-> v.raised, message |-> v.message, client_calls |-> 0,
          twilio_client |-> None]
    ELSE [raised |-> t.raised, message |-> "", client_calls |-> 1,
          twilio_client |-> t.twilio_client]

\* A process started in any environment.
ConstructInit ==
    /\ XIdle
    /\ CallerInit
    /\ WatcherIdle
    /\ SummaryIdle
    /\ TwimlIdle
    /\ AppInit
    /\ ToolsIdle
    /\ environ \in [RequiredNames -> EnvValues]
    /\ constructed = None

\* OutboundCaller() is evaluated.
Construct ==
    /\ constructed = None
    /\ \E client \in ClientOutcomes :
          constructed' = Some(OutboundCaller_init(environ, client))
    /\ UNCHANGED <<cvars, wvars, svars, tvars, avars, environ, gvars, xvars>>

ConstructNext == Construct

SpecConstruct == ConstructInit /\ [][ConstructNext]_vars

\* ------------------------------------------------- the agent's tools

\* The number of tool calls of a session.
MaxToolCalls == 3

\* What the remove_participant request does: it succeeds only for a
\* participant that is in the room, and it may raise in either case.
RemoveOutcomes(present) == IF present THEN {"ok", "error"} ELSE {"error"}

\* A slip: hangup lets the error of the request go on to its caller.
hangup_Reraise(present, removed) ==
    [requests |-> 1,
     in_room |-> IF removed = "ok" THEN FALSE ELSE present,
     raised |-> IF removed = "ok" THEN None ELSE Some("Exception")]

\* CallAgent.hangup: one remove_participant request, its error logged.
hangup(present, removed) ==
    [requests |-> 1,
     in_room |-> IF removed = "ok" THEN FALSE ELSE present,
     raised |-> None]

\* CallAgent.end_call.
end_call(present, removed) == hangup(present, removed)

\* CallAgent.detected_answering_machine.
detected_answering_machine(present, removed) == hangup(present, removed)

\* CallAgent.look_up_availability: sleeps and returns the available times.
look_up_availability(present) ==
    [requests |-> 0, in_room |-> present, raised |-> None]

\* CallAgent.confirm_appointment: returns "reservation confirmed".
confirm_appointment(present) ==
    [requests |-> 0, in_room |-> present, raised |-> None]

\* The entry of tool_log for a tool call.
ToolEntry(tool, removed, present, r) ==
    [tool |-> tool, removed |-> removed, present |-> present,
     requests |-> r.requests, in_room |-> r.in_room, raised |-> r.raised]

\* A session has started with the callee in the room.
ToolsInit ==
    /\ XIdle
    /\ CallerInit
    /\ WatcherIdle
    /\ SummaryIdle
    /\ TwimlIdle
    /\ AppInit
    /\ EnvConfigured
    /\ in_room = TRUE
    /\ tool_log = <<>>

\* The model calls end_call.
EndCall ==
    /\ Len(tool_log) < MaxToolCalls
    /\ \E removed \in RemoveOutcomes(in_room) :
          LET r == end_call(in_room, removed) IN
          /\ in_room' = r.in_room
          /\ tool_log' = Append(tool_log, ToolEntry("end_call", removed, in_room, r))
    /\ UNCHANGED <<cvars, wvars, svars, tvars, avars, evars, xvars>>

\* The model calls detected_answering_machine.
DetectedAnsweringMachine ==
    /\ Len(tool_log) < MaxToolCalls
    /\ \E removed \in RemoveOutcomes(in_room) :
          LET r == detected_answering_machine(in_room, removed) IN
          /\ in_room' = r.in_room
          /\ tool_log' = Append(tool_log,
                                ToolEntry("detected_answering_machine", removed, in_room, r))
    /\ UNCHANGED <<cvars, wvars, svars, tvars, avars, evars, xvars>>

\* The model calls look_up_availability.
LookUpAvailability ==
    /\ Len(tool_log) < MaxToolCalls
    /\ LET r == look_up_availability(in_room) IN
       /\ in_room' = r.in_room
       /\ tool_log' = Append(tool_log, ToolEntry("look_up_availability", "none", in_room, r))
    /\ UNCHANGED <<cvars, wvars, svars, tvars, avars, evars, xvars>>

\* The model calls confirm_appointment.
ConfirmAppointment ==
    /\ Len(tool_log) < MaxToolCalls
    /\ LET r == confirm_appointment(in_room) IN
       /\ in_room' = r.in_room
       /\ tool_log' = Append(tool_log, ToolEntry("confirm_appointment", "none", in_room, r))
    /\ UNCHANGED <<cvars, wvars, svars, tvars, avars, evars, xvars>>

\* The callee hangs up.
ParticipantLeaves ==
    /\ in_room
    /\ in_room' = FALSE
    /\ UNCHANGED <<cvars, wvars, svars, tvars, avars, evars, tool_log, xvars>>

ToolsNext ==
    \/ EndCall
    \/ DetectedAnsweringMachine
    \/ LookUpAvailability
    \/ ConfirmAppointment
    \/ ParticipantLeaves

SpecTools == ToolsInit /\ [][ToolsNext]_vars

\* ------------------------------------------- run_voice_pipeline_agent

\* What an awaited call of the session does: it returns, or raises.
SessionOutcomes == {"ok", "error"}

\* A slip: the greeting is attempted without waiting for session.start.
session_begin_GreetFirst ==
    [pc |-> "greeting", running |-> FALSE]

\* Lines 190-199: the agent and the session are made and session.start is
\* awaited.
session_begin ==
    [pc |-> "starting", running |-> FALSE]

\* session.start completes: an exception of it leaves
\* run_voice_pipeline_agent, otherwise the greeting comes next.
session_started_step(started) ==
    IF started = "error"
    THEN [pc |-> "raised", running |-> FALSE]
    ELSE [pc |-> "greeting", running |-> TRUE]

\* A slip: a failed greeting shuts the job down and is raised again.
greeting_step_Abort(said) ==
    IF said = "error"
    THEN [pc |-> "raised", shutdowns |-> 1, hangups |-> 0, said |-> said]
    ELSE [pc |-> "returned", shutdowns |-> 0, hangups |-> 0, said |-> said]

\* Lines 202-205: session.say inside try/except Exception; an error is
\* logged and the function returns.
greeting_step(said) ==
    [pc |-> "returned", shutdowns |-> 0, hangups |-> 0, said |-> said]

\* The watcher has seen the pickup and calls run_voice_pipeline_agent with
\* the callee in the room.
SessionInit ==
    /\ CallerInit
    /\ SummaryIdle
    /\ TwimlIdle
    /\ AppInit
    /\ EnvConfigured
    /\ w_pc = "session"
    /\ now = 0
    /\ wake_at = 1
    /\ callStatus = "active"
    /\ disconnect_reason = "none"
    /\ picked_up = TRUE
    /\ outcome = "active"
    /\ shutdown_count = 0
    /\ session_started = TRUE
    /\ active_in_time = TRUE
    /\ ever_active = TRUE
    /\ ever_disc = FALSE
    /\ in_room = TRUE
    /\ tool_log = <<>>
    /\ XIdle

\* run_voice_pipeline_agent is called and runs up to the await of
\* session.start.
SessionBegin ==
    /\ session_pc = "not_called"
    /\ session_pc' = session_begin.pc
    /\ session_running' = session_begin.running
    /\ UNCHANGED <<cvars, wvars, svars, tvars, avars, evars, gvars, greeting,
                   rvars, lvars, mvars>>

\* session.start completes.
SessionStarted ==
    /\ session_pc = "starting"
    /\ \E started \in SessionOutcomes :
          LET r == session_started_step(started) IN
          /\ session_pc' = r.pc
          /\ session_running' = r.running
    /\ UNCHANGED <<cvars, wvars, svars, tvars, avars, evars, gvars, greeting,
                   rvars, lvars, mvars>>

\* session.say completes and run_voice_pipeline_agent ends.
GreetingDone ==
    /\ session_pc = "greeting"
    /\ \E said \in SessionOutcomes :
          LET r == greeting_step(said) IN
          /\ session_pc' = r.pc
          /\ greeting' = r.said
          /\ shutdown_count' = shutdown_count + r.shutdowns
          /\ tool_log' = tool_log
          /\ in_room' = in_room
    /\ UNCHANGED <<cvars, w_pc, now, wake_at, callStatus, disconnect_reason, picked_up,
                   outcome, session_started, active_in_time, ever_active, ever_disc,
                   svars, tvars, avars, evars, session_running, rvars, lvars, mvars>>

\* The session of a picked-up call: its start, its greeting, and the tools
\* the model calls once the session runs.
SessionNext ==
    \/ SessionBegin
    \/ SessionStarted
    \/ GreetingDone
    \/ session_running /\ EndCall
    \/ session_running /\ DetectedAnsweringMachine
    \/ session_running /\ LookUpAvailability
    \/ session_running /\ ConfirmAppointment
    \/ ParticipantLeaves

SpecSession == SessionInit /\ [][SessionNext]_vars

\* --------------------------------------- recording_status_webhook (pure)

\* The values of the RecordingStatus parameter; None when the request has none.
RecordingStatusValues ==
    {None, Some("in-progress"), Some("completed"), Some("absent"), Some("failed")}

\* The values of the RecordingSid parameter.
RecordingSidValues == {None, Some("RE1")}

\* The values of the RecordingUrl parameter.
RecordingUrlValues == {None, Some("https://api.twilio.com/recordings/RE1")}

\* What requests.get does: a response with a status code, or an exception;
\* without a URL it can only raise.
FetchOutcomes(recording_url) ==
    IF recording_url = None THEN {"error"} ELSE {"200", "404", "error"}

\* What writing the file does: it succeeds, or raises.
WriteOutcomes == {"ok", "error"}

\* A slip: an exception of the download goes on to the handler.
download_recording_Reraise(recording_sid, recording_url, fetched, written) ==
    [requests |-> 1,
     files |-> IF fetched = "200" /\ written = "ok"
               THEN <<"recordings/recording_" \o FormatOptional(recording_sid) \o ".mp3">>
               ELSE <<>>,
     raised |-> IF fetched = "error" \/ (fetched = "200" /\ written = "error")
                THEN Some("Exception") ELSE None]

\* download_recording: one authenticated GET; a 200 is written to a file;
\* every exception is logged inside the function.
download_recording(recording_sid, recording_url, fetched, written) ==
    [requests |-> 1,
     files |-> IF fetched = "200" /\ written = "ok"
               THEN <<"recordings/recording_" \o FormatOptional(recording_sid) \o ".mp3">>
               ELSE <<>>,
     raised |-> None]

\* recording_status_webhook: what it did and what it answered.
recording_status_webhook(req, fetched, written) ==
    IF req.RecordingStatus = Some("completed")
    THEN LET d == download_recording(req.RecordingSid, req.RecordingUrl, fetched, written) IN
         [body |-> IF d.raised = None THEN Some([status |-> "received"]) ELSE None,
          downloads |-> 1, files |-> d.files, raised |-> d.raised]
    ELSE [body |-> Some([status |-> "received"]), downloads |-> 0,
          files |-> <<>>, raised |-> None]

\* Any recording-status request.
RecordingInit ==
    /\ CallerInit
    /\ WatcherIdle
    /\ SummaryIdle
    /\ TwimlIdle
    /\ AppInit
    /\ EnvConfigured
    /\ ToolsIdle
    /\ PipelineIdle
    /\ LoaderIdle
    /\ CliIdle
    /\ \E sid \in CallSidValues, rsid \in RecordingSidValues,
          url \in RecordingUrlValues, st \in RecordingStatusValues :
          recording_request = [CallSid |-> sid, RecordingSid |-> rsid,
                               RecordingUrl |-> url, RecordingStatus |-> st]
    /\ recording_response = None

\* POST /webhook/recording-status is handled.
RecordingStatusWebhook ==
    /\ recording_response = None
    /\ \E fetched \in FetchOutcomes(recording_request.RecordingUrl),
          written \in WriteOutcomes :
          LET r == recording_status_webhook(recording_request, fetched, written) IN
          recording_response'
             = Some(r @@ [fetched |-> IF r.downloads = 0 THEN "none" ELSE fetched,
                          written |-> IF r.downloads = 1 /\ fetched = "200"
                                      THEN written ELSE "none"])
    /\ UNCHANGED <<cvars, wvars, svars, tvars, avars, evars, gvars, pvars,
                   recording_request, lvars, mvars>>

RecordingNext == RecordingStatusWebhook

SpecRecording == RecordingInit /\ [][RecordingNext]_vars

\* ------------------------------------------------ contact loaders (pure)

\* The number of rows of a contacts file.
MaxRows == 2

\* A field the row has no key for.
Absent == [key |-> FALSE, value |-> None]

\* A field the row holds None for: a CSV row shorter than the header, a JSON
\* null.
Null == [key |-> TRUE, value |-> None]

\* A field holding a string.
Text(t) == [key |-> TRUE, value |-> Some(t)]

\* The name fields of the rows.
NameFields == {Absent, Null, Text("  "), Text(" Jane Doe "), Text("Bob")}

\* The phone fields of the rows.
PhoneFields == {Absent, Null, Text(""), Text(" 415-555-0100 ")}

\* The company fields of the rows.
CompanyFields == {Null, Text("Acme")}

\* The rows of the files.
Rows ==
    [name : NameFields, phone : PhoneFields, company : CompanyFields, notes : {Absent}]

\* str.strip() on the strings of the rows.
Strip(t) ==
    CASE t = "  " -> ""
      [] t = " Jane Doe " -> "Jane Doe"
      [] t = " 415-555-0100 " -> "415-555-0100"
      [] OTHER -> t

\* row.get(key, ''): the default only for a key the row does not have.
row_get(field) == IF field.key THEN field.value ELSE Some("")

\* x.strip() or None.
StripOrNone(t) == IF Strip(t) = "" THEN None ELSE Some(Strip(t))

\* The body of the loaders' loop for one row: the contact built and whether
\* it is kept, or the AttributeError of None.strip().
load_row(row) ==
    IF \E f \in {row.name, row.phone, row.company, row.notes} : row_get(f) = None
    THEN [raised |-> Some("AttributeError"), keep |-> FALSE, contact |-> None]
    ELSE LET contact == [name |-> Strip(row_get(row.name)[1]),
                         phone_number |-> Strip(row_get(row.phone)[1]),
                         company |-> StripOrNone(row_get(row.company)[1]),
                         notes |-> StripOrNone(row_get(row.notes)[1])] IN
         [raised |-> None,
          keep |-> contact.name # "" /\ contact.phone_number # "",
          contact |-> Some(contact)]

\* The loaders' loop over the rows from the k-th on, contacts being the list
\* so far; an exception ends it in sys.exit(1).
RECURSIVE load_rows(_, _, _)
load_rows(rows, k, contacts) ==
    IF k > Len(rows) THEN [contacts |-> contacts, exit |-> None]
    ELSE LET r == load_row(rows[k]) IN
         IF r.raised # None THEN [contacts |-> <<>>, exit |-> Some(1)]
         ELSE load_rows(rows, k + 1,
                        IF r.keep THEN Append(contacts, r.contact[1]) ELSE contacts)

\* load_contacts_from_csv on a file: sys.exit(1) when it cannot be read.
load_contacts_from_csv(f) ==
    IF f.state # "ok" THEN [contacts |-> <<>>, exit |-> Some(1)]
    ELSE load_rows(f.rows, 1, <<>>)

\* load_contacts_from_json on a file: sys.exit(1) when it cannot be read.
load_contacts_from_json(f) ==
    IF f.state # "ok" THEN [contacts |-> <<>>, exit |-> Some(1)]
    ELSE load_rows(f.rows, 1, <<>>)

\* A readable contacts file of either format with any rows.
LoaderInit ==
    /\ CallerInit
    /\ WatcherIdle
    /\ SummaryIdle
    /\ TwimlIdle
    /\ AppInit
    /\ EnvConfigured
    /\ ToolsIdle
    /\ PipelineIdle
    /\ RecordingIdle
    /\ CliIdle
    /\ \E ext \in {".csv", ".json"}, n \in 0..MaxRows :
          \E rows \in [1..n -> Rows] :
             file = [ext |-> ext, state |-> "ok", rows |-> rows]
    /\ loaded = None

\* The loader for the file's format is called.
LoadContacts ==
    /\ loaded = None
    /\ loaded' = Some(IF file.ext = ".csv" THEN load_contacts_from_csv(file)
                      ELSE load_contacts_from_json(file))
    /\ UNCHANGED <<cvars, wvars, svars, tvars, avars, evars, gvars, pvars, rvars,
                   file, mvars>>

LoaderNext == LoadContacts

SpecLoader == LoaderInit /\ [][LoaderNext]_vars

\* ------------------------------------------------- make_calls.py main

\* The sub-command of the command line; None when there is none.
Commands == {None, Some("single"), Some("bulk")}

\* The extensions of the file named by --file.
FileExtensions == {".csv", ".json", ".txt"}

\* Whether the file can be opened and parsed.
FileStates == {"ok", "missing", "unreadable"}

\* The contents of the files named by --file.
FileRowSets ==
    {<<>>,
     <<[name |-> Text("Bob"), phone |-> Text(" 415-555-0100 "),
        company |-> Text("Acme"), notes |-> Absent]>>,
     <<[name |-> Text("  "), phone |-> Text(" 415-555-0100 "),
        company |-> Text("Acme"), notes |-> Absent]>>,
     <<[name |-> Text("Bob"), phone |-> Text(" 415-555-0100 "),
        company |-> Text("Acme"), notes |-> Absent],
       [name |-> Text(" Jane Doe "), phone |-> Null,
        company |-> Null, notes |-> Absent]>>}

\* The environments make_calls.py is started in: complete, one name not
\* set, one name set to the empty string.
CliEnvironments ==
    {[v \in RequiredNames |-> Some("value")],
     [v \in RequiredNames |-> IF v = "TWILIO_AUTH_TOKEN" THEN None ELSE Some("value")],
     [v \in RequiredNames |-> IF v = "WEBHOOK_BASE_URL" THEN Some("") ELSE Some("value")]}

\* A slip: main goes on when OutboundCaller() has raised.
cli_validate_Ignore(built) == None

\* Lines 257-266: sys.exit(1) when OutboundCaller() raises, a ValueError or
\* any other exception.
cli_validate(built) == IF built.raised # None THEN Some(1) ELSE None

\* Lines 272-285: the loader chosen by the file's extension, sys.exit(1)
\* for another extension, for a loader that exited and for an empty list.
cli_load(f) ==
    LET r == IF f.ext = ".csv" THEN load_contacts_from_csv(f)
             ELSE load_contacts_from_json(f) IN
    IF f.ext \notin {".csv", ".json"} THEN [contacts |-> <<>>, exit |-> Some(1)]
    ELSE IF r.exit # None THEN r
    ELSE IF r.contacts = <<>> THEN [contacts |-> <<>>, exit |-> Some(1)]
    ELSE r

\* main: the exit code when it ends the process, else the function it goes
\* on to run.
main(args, built, f) ==
    IF args.command = None
    THEN [exit_code |-> Some(0), reached |-> "print_help"]
    ELSE IF cli_validate(built) # None
    THEN [exit_code |-> cli_validate(built), reached |-> "OutboundCaller"]
    ELSE IF args.command = Some("single")
    THEN [exit_code |-> None, reached |-> "make_single_call"]
    ELSE IF cli_load(f).exit # None
    THEN [exit_code |-> cli_load(f).exit, reached |-> "load_contacts"]
    ELSE [exit_code |-> None, reached |-> "make_bulk_calls"]

\* make_calls.py is started with any command line, in any of the
\* environments, on any of the files.
CliInit ==
    /\ CallerInit
    /\ WatcherIdle
    /\ SummaryIdle
    /\ TwimlIdle
    /\ AppInit
    /\ ToolsIdle
    /\ PipelineIdle
    /\ RecordingIdle
    /\ \E command \in Commands : argv = [command |-> command]
    /\ IF argv.command = Some("bulk")
       THEN \E ext \in FileExtensions, state \in FileStates, rows \in FileRowSets :
               file = [ext |-> ext, state |-> state, rows |-> rows]
       ELSE file = [ext |-> "", state |-> "ok", rows |-> <<>>]
    /\ loaded = None
    /\ environ \in CliEnvironments
    /\ constructed = None
    /\ exit_status = None

\* main runs up to sys.exit or up to the function that makes the calls.
Main ==
    /\ exit_status = None
    /\ \E client \in ClientOutcomes :
          LET built == OutboundCaller_init(environ, client) IN
          /\ constructed' = IF argv.command = None THEN None ELSE Some(built)
          /\ exit_status' = Some(main(argv, built, file))
          /\ loaded' = IF main(argv, built, file).reached
                           \in {"load_contacts", "make_bulk_calls"}
                           /\ file.ext \in {".csv", ".json"}
                        THEN Some(IF file.ext = ".csv" THEN load_contacts_from_csv(file)
                                  ELSE load_contacts_from_json(file))
                        ELSE None
    /\ UNCHANGED <<cvars, wvars, svars, tvars, avars, environ, gvars, pvars, rvars,
                   file, argv>>

\* main has gone on to make_single_call.
CliSingle == exit_status # None /\ exit_status[1].reached = "make_single_call"

\* main has gone on to make_bulk_calls.
CliBulk == exit_status # None /\ exit_status[1].reached = "make_bulk_calls"

\* The command line tool: main, then the calls of the command it was given.
CliNext ==
    \/ Main
    \/ CliSingle /\ attempts = <<>> /\ SingleCall
    \/ CliBulk /\ BulkStart
    \/ CliBulk /\ BulkDispatch
    \/ CliBulk /\ BulkWake

SpecCli == CliInit /\ [][CliNext]_vars

\* ------------------------------------------------------------------- claims

\* The statuses the data model calls terminal.
TerminalStatuses == {"completed", "failed", "busy", "no-answer", "rejected", "timeout"}

\* The last n elements of a sequence.
LastN(s, n) == SubSeq(s, Len(s) - n + 1, Len(s))

\* C1: once a record's status is terminal, no step (no update_call_result
\* call) changes that record's status.
C1_TerminalStatusIsFinal ==
    [][\A k \in 1..Len(call_results) :
          call_results[k].status \in TerminalStatuses
             => call_results'[k].status = call_results[k].status]_vars

\* C2: make_bulk_calls returns one CallResult per recipient, the k-th for
\* the k-th recipient; while it runs, results is that for the recipients
\* dispatched so far.
C2_OneResultPerRecipient ==
    /\ Len(results) <= Len(recipients)
    /\ \A k \in 1..Len(results) :
          Deref(call_results, results[k]).recipient = recipients[k]
    /\ bulk_pc = "done" => Len(results) = Len(recipients)

\* A campaign of two recipients or more has returned; one dispatch raised an
\* unexpected exception and another ended in the failure path.
C2_Witness ==
    /\ bulk_pc = "done"
    /\ Len(recipients) >= 2
    /\ Len(results) = Len(recipients)
    /\ \E k \in 1..Len(results) : results[k].own # None
    /\ \E k \in 1..Len(results) :
          results[k].own = None /\ call_results[results[k].ref].call_sid = ""

\* C3: make_outbound_call never lets an exception escape to its caller.
C3_NeverRaises == raised = None

\* C4: a dispatch whose number validate_phone_number rejects makes no
\* calls.create request and appends a record with status failed, an empty
\* call_sid and a non-empty error.
C4_InvalidNumberNoCarrierRequest ==
    [][(/\ Len(attempts') = Len(attempts) + 1
        /\ validate_phone_number(attempts'[Len(attempts')].phone_number).raised # None)
       => /\ create_log' = create_log
          /\ Len(call_results') = Len(call_results) + 1
          /\ LET rec == call_results'[Len(call_results')] IN
             /\ rec.recipient = attempts'[Len(attempts')]
             /\ rec.call_sid = ""
             /\ rec.status = "failed"
             /\ rec.error # None
             /\ rec.error[1] # ""]_vars

\* The last dispatch was for a number that validation rejects: its failed
\* record is the last of call_results and no carrier request was ever made.
C4_Witness ==
    /\ attempts # <<>>
    /\ last_op.op \in {"make_outbound_call", "bulk_dispatch"}
    /\ validate_phone_number(attempts[Len(attempts)].phone_number).raised # None
    /\ create_log = <<>>
    /\ call_results # <<>>
    /\ call_results[Len(call_results)].status = "failed"
    /\ call_results[Len(call_results)].call_sid = ""

\* The outcomes in which the watcher gives the call up.
FailureOutcomes == {"rejected", "unavailable", "timed_out"}

\* C5 as stated: if sip.callStatus became "active" before the ceiling elapsed
\* and is still "active", and no rejected/unavailable disconnect reason was
\* ever set, the watcher does not end in the timed-out outcome.
C5_ActiveBeforeCeilingNeverTimedOut ==
    (callStatus = "active" /\ active_in_time /\ ~ever_disc) => outcome # "timed_out"

\* C5 as amended: a poll made before the ceiling elapses that reads
\* sip.callStatus "active" ends the watcher in the active outcome and starts
\* the session in the same step, without a shutdown; the active outcome is
\* final and is never followed by a shutdown.
C5_ActiveAtPollLaunchesSession ==
    /\ [][(w_pc = "loop" /\ now < CeilingTicks /\ callStatus = "active")
            => /\ outcome' = "active"
               /\ picked_up'
               /\ session_started'
               /\ w_pc' = "session"
               /\ shutdown_count' = shutdown_count]_vars
    /\ [][outcome = "active" => outcome' = "active" /\ shutdown_count' = 0]_vars

\* The pickup was seen by a poll after at least one sleep and before the
\* ceiling, with a rejected disconnect reason set at the same poll.
C5_Witness ==
    /\ w_pc = "session"
    /\ outcome = "active"
    /\ session_started
    /\ now > 0
    /\ now < CeilingTicks
    /\ disconnect_reason = "USER_REJECTED"

\* C6: a watcher that returns without the participant ever having been
\* active or having had a rejected/unavailable disconnect reason returns
\* after the ceiling, in the timed-out outcome, with ctx.shutdown() called
\* exactly once and no session; and without such a change the watcher never
\* starts the session and never sleeps past the ceiling.
C6_TimedOutShutsDownOnce ==
    /\ (w_pc = "returned" /\ ~ever_active /\ ~ever_disc)
          => /\ outcome = "timed_out"
             /\ shutdown_count = 1
             /\ now >= CeilingTicks
             /\ ~session_started
    /\ (~ever_active /\ ~ever_disc) => w_pc # "session"
    /\ outcome = "timed_out" => shutdown_count = 1 /\ w_pc = "returned"
    /\ w_pc = "sleeping" => wake_at <= CeilingTicks

\* The ceiling elapsed with no pickup and no disconnect reason, and the
\* watcher has returned.
C6_Witness ==
    /\ w_pc = "returned"
    /\ outcome = "timed_out"
    /\ ~ever_active
    /\ ~ever_disc
    /\ shutdown_count = 1
    /\ now >= CeilingTicks

\* C7: the session is started only in the active outcome, after a poll read
\* callStatus "active", and then no shutdown was called; in each of the
\* rejected, unavailable and timed-out outcomes ctx.shutdown() was called
\* once, entrypoint has returned (so no further poll is made) and the session
\* was not started.
C7_SessionOnlyAfterActive ==
    /\ session_started
          => outcome = "active" /\ picked_up /\ ever_active /\ shutdown_count = 0
    /\ outcome \in FailureOutcomes
          => shutdown_count = 1 /\ w_pc = "returned" /\ ~session_started
    /\ w_pc = "returned" => outcome \in FailureOutcomes
    /\ w_pc = "session" <=> session_started

\* The callee rejected the call while the watcher slept; the next poll shut
\* the job down and returned.
C7_Witness ==
    /\ outcome = "rejected"
    /\ w_pc = "returned"
    /\ shutdown_count = 1
    /\ ~session_started
    /\ now > 0

\* C8: a status webhook whose CallSid matches a record sets that record's
\* status to the reported one, unless the record's status is terminal.
C8_WebhookUpdatesRecord ==
    [][(/\ last_op'.op = "call_status_webhook"
        /\ Matching(call_results, last_op'.call_sid) # {})
       => LET k == First(Matching(call_results, last_op'.call_sid)) IN
          call_results[k].status \notin TerminalStatuses
             => call_results'[k].status = last_op'.status]_vars

\* C9: a status webhook, or an update_call_result call, that names a call
\* identifier no record carries leaves call_results as it is; the webhook
\* answers {'status': 'received'}.
C9_UnknownSidNoMutation ==
    [][(/\ last_op'.op \in {"call_status_webhook", "update_call_result"}
        /\ Matching(call_results, last_op'.call_sid) = {})
       => /\ call_results' = call_results
          /\ last_op'.op = "call_status_webhook" => response' = Some("received")]_vars

\* update_call_result has just been called with an identifier that none of
\* the records held carries.
C9_Witness ==
    /\ last_op.op = "update_call_result"
    /\ call_results # <<>>
    /\ Matching(call_results, last_op.call_sid) = {}

\* C10: when make_bulk_calls returns, every recipient of the list has been
\* handed to make_outbound_call, in order, whatever failed before it; a
\* result without a carrier identifier carries an error text, and the result
\* of a recipient whose number is rejected carries the validation message.
C10_FailureDoesNotStopCampaign ==
    /\ bulk_pc = "done"
          => /\ Len(attempts) >= Len(recipients)
             /\ LastN(attempts, Len(recipients)) = recipients
    /\ \A k \in 1..Len(results) :
          LET res == Deref(call_results, results[k])
              validated == validate_phone_number(recipients[k].phone_number) IN
          /\ res.call_sid = "" => res.error # None /\ res.error[1] # ""
          /\ validated.raised # None => res.error = validated.raised

\* The first dispatch of a campaign raised an unexpected exception and the
\* campaign went on to dispatch the second recipient.
C10_Witness ==
    /\ bulk_pc = "done"
    /\ Len(results) >= 2
    /\ results[1].own # None
    /\ Len(attempts) >= 2
    /\ LastN(attempts, Len(recipients)) = recipients

\* The steps that run make_outbound_call.
DispatchOps == {"make_outbound_call", "bulk_dispatch"}

\* C11: in make_bulk_calls one delay is taken between any two consecutive
\* dispatches and none after the last: i - 1 delays precede the dispatch of
\* recipient i, and n - 1 delays were taken when the campaign returns.
C11_OneDelayBetweenDispatches ==
    /\ bulk_pc = "dispatch" => delays = i - 1
    /\ (bulk_pc = "done" /\ recipients # <<>>) => delays = Len(recipients) - 1

\* C13: a dispatch for which the carrier returned a call made exactly one
\* calls.create request and appended exactly one record, with the carrier's
\* identifier (non-empty), the status the carrier reported and no error; the
\* CallResult returned is that record.
C13_SuccessRecordsCarrierCall ==
    [][(last_op'.op \in DispatchOps /\ last_op'.call_sid # "")
       => /\ Len(attempts') = Len(attempts) + 1
          /\ create_log' = Append(create_log, attempts'[Len(attempts')])
          /\ Len(call_results') = Len(call_results) + 1
          /\ SubSeq(call_results', 1, Len(call_results)) = call_results
          /\ LET rec == call_results'[Len(call_results')] IN
             /\ rec.recipient = attempts'[Len(attempts')]
             /\ rec.call_sid = last_op'.call_sid
             /\ rec.status = last_op'.status
             /\ rec.status \in InitialStatuses
             /\ rec.error = None
             /\ last_op'.result = Some(rec)]_vars

\* The second call the carrier created has just been recorded by a single
\* make_outbound_call.
C13_Witness ==
    /\ last_op.op = "make_outbound_call"
    /\ last_op.call_sid = CarrierSid(2)
    /\ call_results # <<>>
    /\ call_results[Len(call_results)].call_sid = CarrierSid(2)
    /\ Len(create_log) = 2

RECURSIVE SumOver(_, _)
SumOver(f, D) ==
    IF D = {} THEN 0
    ELSE LET d == CHOOSE x \in D : TRUE IN f[d] + SumOver(f, D \ {d})

\* C12: the summary of a non-empty record list reports the number of
\* records, per-status counts that sum to it, the number of completed
\* records, and as success_rate the tenth of a percent nearest to
\* 100 * completed / total; for the statuses completed, completed, failed,
\* no-answer the rate is 50.0%.
C12_SummaryCounts ==
    (summary # None /\ summary_records # <<>>)
       => LET out == summary[1]
              total == Len(summary_records)
              completed == {k \in 1..total : summary_records[k].status = "completed"} IN
          /\ out.total_calls = total
          /\ DOMAIN out.status_breakdown = {summary_records[k].status : k \in 1..total}
          /\ \A st \in DOMAIN out.status_breakdown :
                out.status_breakdown[st]
                   = Cardinality({k \in 1..total : summary_records[k].status = st})
          /\ SumOver(out.status_breakdown, DOMAIN out.status_breakdown) = out.total_calls
          /\ out.successful_calls = Cardinality(completed)
          /\ \E x \in 0..1000 :
                /\ 2 * (x * total - 1000 * Cardinality(completed)) <= total
                /\ 2 * (1000 * Cardinality(completed) - x * total) <= total
                /\ out.success_rate = FormatTenths(x)
          /\ [k \in 1..total |-> summary_records[k].status]
                = <<"completed", "completed", "failed", "no-answer">>
             => out.success_rate = "50.0%"

\* The summary of four calls with statuses completed, completed, failed and
\* no-answer has been taken.
C12_Witness ==
    /\ summary # None
    /\ Len(summary_records) = 4
    /\ [k \in 1..4 |-> summary_records[k].status]
          = <<"completed", "completed", "failed", "no-answer">>
    /\ summary[1].success_rate = "50.0%"
    /\ summary[1].total_calls = 4

\* The verbs of a response, by name.
VerbNames(resp) == [k \in 1..Len(resp.verbs) |-> resp.verbs[k].verb]

\* C15: a request answered by a machine gets a spoken message followed by a
\* hangup and no connection, whatever its CallStatus; any other request with
\* CallStatus in-progress gets a connection to room outbound-<CallSid> and no
\* hangup; every other request gets a spoken message followed by a hangup.
C15_BranchesOnAnswerOutcome ==
    twiml_response # None
       => LET resp == twiml_response[1] IN
          IF twiml_request.AnsweredBy = Some("machine_start")
          THEN resp.raised = None /\ VerbNames(resp) = <<"Say", "Hangup">>
          ELSE IF twiml_request.CallStatus = Some("in-progress")
          THEN /\ resp.raised = None
               /\ VerbNames(resp) = <<"Connect">>
               /\ LIVEKIT_URL # None
               /\ resp.verbs[1].url
                     = "wss://" \o LIVEKIT_URL[1] \o "/sip/outbound-"
                          \o FormatOptional(twiml_request.CallSid)
          ELSE resp.raised = None /\ VerbNames(resp) = <<"Say", "Hangup">>

\* C16: when POST /call answers with a call_id and status initiated the
\* record of that call_id is in the store; a GET /call/{call_id} for an id
\* that was issued answers 200 with the record of that id, in whatever state
\* the background task has left it; a GET for an id never issued answers 404;
\* and no GET changes a record.
C16_IssuedIdIsRetrievable ==
    /\ [](\A call_id \in DOMAIN task_pc :
             /\ get_call_status(call_status, call_id).code = 200
             /\ get_call_status(call_status, call_id).body = Some(call_status[call_id])
             /\ call_status[call_id].call_id = call_id)
    /\ [][app_op'.op = "make_call"
            => /\ http_response'.code = 200
               /\ http_response'.body[1].status = "initiated"
               /\ http_response'.body[1].call_id \notin DOMAIN task_pc
               /\ http_response'.body[1].call_id \in DOMAIN call_status'
               /\ call_status'[http_response'.body[1].call_id].status = "initiated"
               /\ call_status'[http_response'.body[1].call_id].call_id
                     = http_response'.body[1].call_id]_vars
    /\ [][app_op'.op = "get_call_status"
            => /\ call_status' = call_status
               /\ IF app_op'.call_id \in DOMAIN task_pc
                  THEN /\ http_response'.code = 200
                       /\ http_response'.body = Some(call_status[app_op'.call_id])
                  ELSE /\ http_response'.code = 404
                       /\ http_response'.body = None]_vars

\* A call whose background task has failed is read back with its record, after
\* a GET for an id never issued was answered 404.
C16_Witness ==
    /\ app_op.op = "get_call_status"
    /\ app_op.call_id = CallId(1)
    /\ http_response.code = 200
    /\ http_response.body = Some(call_status[CallId(1)])
    /\ call_status[CallId(1)].status = "failed"
    /\ Cardinality(DOMAIN call_status) = 2

\* C17: a failure of the background task (missing LiveKit configuration, an
\* error of create_room, an error of create_sip_participant) ends the task
\* without an exception leaving it, with the call's record at status failed
\* and its error field holding the message; no task ever ends by raising.
C17_TaskFailureContained ==
    /\ [](\A call_id \in DOMAIN task_pc : task_pc[call_id] # "raised")
    /\ [][(app_op'.op = "initiate_call" /\ app_op'.failure # None /\ app_op' # app_op)
            => /\ task_pc'[app_op'.call_id] = "returned"
               /\ app_op'.call_id \in DOMAIN call_status'
               /\ call_status'[app_op'.call_id].status = "failed"
               /\ call_status'[app_op'.call_id].error = app_op'.failure]_vars
    /\ [](\A call_id \in DOMAIN call_status :
             (task_pc[call_id] = "returned" /\ call_status[call_id].status # "connected")
                => /\ call_status[call_id].status = "failed"
                   /\ call_status[call_id].error # None)

\* One call failed in create_room and another in create_sip_participant.
C17_Witness ==
    /\ DOMAIN call_status = {CallId(1), CallId(2)}
    /\ call_status[CallId(1)].status = "failed"
    /\ call_status[CallId(1)].error = Some("create_room failed")
    /\ call_status[CallId(2)].status = "failed"
    /\ call_status[CallId(2)].error = Some("create_sip_participant failed")
    /\ task_pc[CallId(1)] = "returned"
    /\ task_pc[CallId(2)] = "returned"

\* C18: no operation removes a call record: every call_id in
\* app.call_status stays in it with its record still returned by
\* GET /call/{call_id}, and OutboundCaller.call_results keeps every record it
\* holds, at its place and for the same recipient and carrier call.
C18_RecordsNeverRemoved ==
    [][/\ DOMAIN call_status \subseteq DOMAIN call_status'
       /\ \A call_id \in DOMAIN call_status :
             /\ call_status'[call_id].call_id = call_id
             /\ call_status'[call_id].phone_number = call_status[call_id].phone_number
             /\ get_call_status(call_status', call_id).code = 200
       /\ Len(call_results') >= Len(call_results)
       /\ \A k \in 1..Len(call_results) :
             /\ call_results'[k].recipient = call_results[k].recipient
             /\ call_results'[k].call_sid = call_results[k].call_sid]_vars

\* Either store holds two records, one of them of a failed call.
C18_Witness ==
    \/ /\ Len(call_results) = 2
       /\ call_results[1].status = "failed"
       /\ last_op.op = "update_call_result"
    \/ /\ Cardinality(DOMAIN call_status) = 2
       /\ call_status[CallId(1)].status = "failed"
       /\ app_op.op = "list_calls"

\* The required names an environment has no value or an empty value for.
MissingNames == {v \in RequiredNames : environ[v] = None \/ environ[v] = Some("")}

\* The missing names, each once, in the order of required_vars.
MissingList ==
    LET missing(v) == v \in MissingNames IN SelectSeq(required_vars, missing)

\* C19: constructing an OutboundCaller with a required value missing or
\* empty raises a ValueError whose message lists the missing names, each once
\* and no other, in the order the names are required in, and Client is not
\* constructed; with all seven values present no ValueError is raised and
\* Client is constructed.
C19_MissingConfigurationFailsFast ==
    constructed # None
       => LET r == constructed[1] IN
          IF MissingNames # {}
          THEN /\ r.raised = Some("ValueError")
               /\ r.client_calls = 0
               /\ r.twilio_client = None
               /\ {MissingList[k] : k \in DOMAIN MissingList} = MissingNames
               /\ Len(MissingList) = Cardinality(MissingNames)
               /\ r.message
                     = "Missing required environment variables: " \o JoinComma(MissingList)
          ELSE /\ r.raised # Some("ValueError")
               /\ r.client_calls = 1

\* An OutboundCaller was constructed with TWILIO_AUTH_TOKEN not set and
\* LIVEKIT_URL empty.
C19_Witness ==
    /\ constructed # None
    /\ environ["TWILIO_AUTH_TOKEN"] = None
    /\ environ["LIVEKIT_URL"] = Some("")
    /\ constructed[1].raised = Some("ValueError")
    /\ constructed[1].message
          = "Missing required environment variables: TWILIO_AUTH_TOKEN, LIVEKIT_URL"

\* The tools that end the call.
HangupTools == {"end_call", "detected_answering_machine"}

\* C20: end_call and detected_answering_machine do the same thing, one
\* remove_participant request for the callee, and neither raises, whether the
\* request succeeded or raised.
C20_HangupErrorSwallowed ==
    /\ \A present \in BOOLEAN :
          \A removed \in RemoveOutcomes(present) :
             end_call(present, removed) = detected_answering_machine(present, removed)
    /\ \A k \in 1..Len(tool_log) :
          tool_log[k].tool \in HangupTools
             => /\ tool_log[k].requests = 1
                /\ tool_log[k].raised = None
                /\ tool_log[k].in_room
                      = (tool_log[k].present /\ tool_log[k].removed # "ok")

\* end_call met an error of the request and did not raise, and
\* detected_answering_machine removed the callee.
C20_Witness ==
    /\ \E k \in 1..Len(tool_log) :
          /\ tool_log[k].tool = "end_call"
          /\ tool_log[k].removed = "error"
          /\ tool_log[k].raised = None
    /\ \E k \in 1..Len(tool_log) :
          /\ tool_log[k].tool = "detected_answering_machine"
          /\ tool_log[k].removed = "ok"
          /\ tool_log[k].present
          /\ ~tool_log[k].in_room

\* C21: the greeting is attempted only once session.start has completed, and
\* a greeting that fails ends run_voice_pipeline_agent like one that
\* succeeds: nothing is raised, the session keeps running, and the step shuts
\* nothing down and removes nobody from the room.
C21_GreetingFailureContained ==
    /\ []((session_pc = "greeting" \/ greeting # "none") => session_running)
    /\ [][(greeting = "none" /\ greeting' = "error")
            => /\ session_pc' = "returned"
               /\ session_running'
               /\ shutdown_count' = shutdown_count
               /\ tool_log' = tool_log
               /\ in_room' = in_room]_vars
    /\ [](greeting = "error" => session_pc = "returned" /\ session_running)

\* The greeting failed, and the model went on to call a tool.
C21_Witness ==
    /\ greeting = "error"
    /\ session_pc = "returned"
    /\ shutdown_count = 0
    /\ Len(tool_log) = 1
    /\ tool_log[1].tool = "look_up_availability"
    /\ in_room

\* C22: the recording-status handler starts a download exactly when
\* RecordingStatus is completed, and it answers with the acknowledgment in
\* every case, whatever the download did.
C22_DownloadOnlyOnCompleted ==
    recording_response # None
       => LET r == recording_response[1] IN
          /\ r.downloads
                = (IF recording_request.RecordingStatus = Some("completed") THEN 1 ELSE 0)
          /\ r.downloads = 0 => r.files = <<>>
          /\ r.raised = None
          /\ r.body = Some([status |-> "received"])

\* The recording was completed, its download failed, and the request was
\* acknowledged.
C22_Witness ==
    /\ recording_response # None
    /\ recording_request.RecordingStatus = Some("completed")
    /\ recording_response[1].fetched = "error"
    /\ recording_response[1].downloads = 1
    /\ recording_response[1].files = <<>>
    /\ recording_response[1].body = Some([status |-> "received"])

\* The stripped text of a field, empty for a field the row does not have.
StrippedField(field) ==
    IF field.key /\ field.value # None THEN Strip(field.value[1]) ELSE ""

\* The rows whose stripped name and stripped phone are both non-empty.
ValidRows(rows) ==
    LET valid(row) == StrippedField(row.name) # "" /\ StrippedField(row.phone) # "" IN
    SelectSeq(rows, valid)

\* C23: a loader returns one CallRecipient for each row whose stripped name
\* and stripped phone are both non-empty, in the order of the rows, and
\* nothing for any other row.
C23_LoaderKeepsValidRowsInOrder ==
    loaded # None
       => /\ loaded[1].exit = None
          /\ Len(loaded[1].contacts) = Len(ValidRows(file.rows))
          /\ \A k \in 1..Len(loaded[1].contacts) :
                /\ loaded[1].contacts[k].name = StrippedField(ValidRows(file.rows)[k].name)
                /\ loaded[1].contacts[k].phone_number
                      = StrippedField(ValidRows(file.rows)[k].phone)

\* The configuration, or for the bulk command the input file, is one the
\* tool must refuse: a required value missing or empty, a caller that could
\* not be constructed, an extension other than .csv and .json, a file that
\* cannot be read, or a file without a valid contact.
MustRefuse ==
    \/ MissingNames # {}
    \/ (constructed # None /\ constructed[1].raised # None)
    \/ /\ argv.command = Some("bulk")
       /\ \/ file.ext \notin {".csv", ".json"}
          \/ file.state # "ok"
          \/ ValidRows(file.rows) = <<>>

\* C24: when the single or the bulk command meets such a configuration or
\* file, main ends the process with a non-zero exit code, and no call has
\* been or will be attempted; calls are attempted only after main has gone
\* on without exiting.
C24_BadInputExitsBeforeDispatch ==
    /\ (exit_status # None /\ argv.command # None /\ MustRefuse)
          => /\ exit_status[1].exit_code # None
             /\ exit_status[1].exit_code # Some(0)
    /\ (exit_status # None /\ exit_status[1].exit_code # None)
          => /\ attempts = <<>>
             /\ create_log = <<>>
             /\ call_results = <<>>
             /\ bulk_pc = "idle"
    /\ (attempts # <<>> \/ bulk_pc # "idle")
          => /\ exit_status # None
             /\ exit_status[1].exit_code = None
             /\ ~MustRefuse

\* The bulk command was refused for an unreadable file, in a complete
\* environment.
C24_Witness ==
    /\ exit_status # None
    /\ argv.command = Some("bulk")
    /\ MissingNames = {}
    /\ constructed # None
    /\ constructed[1].raised = None
    /\ file.ext = ".json"
    /\ file.state = "unreadable"
    /\ exit_status[1].exit_code = Some(1)
    /\ exit_status[1].reached = "load_contacts"
    /\ attempts = <<>>

\* The steps a record's status may take.
StatusMoves ==
    {<<"initiated", "connecting">>, <<"connecting", "dialing">>,
     <<"dialing", "connected">>}
       \cup {<<st, "failed">> : st \in {"initiated", "connecting", "dialing"}}

\* C25: a record of the API's store starts as initiated and its status
\* changes only by a step forward along initiated, connecting, dialing,
\* connected, or to failed from one of the first three; connected and failed
\* are final; a record that is dialing or connected has a room_name.
C25_StatusMovesForward ==
    /\ [][\A call_id \in DOMAIN call_status' :
             IF call_id \in DOMAIN call_status
             THEN \/ call_status'[call_id].status = call_status[call_id].status
                  \/ <<call_status[call_id].status, call_status'[call_id].status>>
                        \in StatusMoves
             ELSE call_status'[call_id].status = "initiated"]_vars
    /\ [](\A call_id \in DOMAIN call_status :
             /\ call_status[call_id].status
                   \in {"initiated", "connecting", "dialing", "connected", "failed"}
             /\ call_status[call_id].status \in {"dialing", "connected"}
                   => call_status[call_id].room_name = Some("call-" \o call_id))

\* One call is connected, with its room, and another failed while dialing.
C25_Witness ==
    /\ DOMAIN call_status = {CallId(1), CallId(2)}
    /\ call_status[CallId(1)].status = "connected"
    /\ call_status[CallId(1)].room_name = Some("call-id1")
    /\ call_status[CallId(2)].status = "failed"
    /\ call_status[CallId(2)].room_name = Some("call-id2")
    /\ call_status[CallId(2)].error = Some("create_sip_participant failed")

\* C30: a step of a call's background task changes no record but its own,
\* however the tasks interleave, and a task that ends leaves its record
\* connected when it met no failure and failed when it met one.
C30_TaskWritesOwnRecordOnly ==
    /\ [][(app_op'.op = "initiate_call" /\ call_status' # call_status)
            => \A call_id \in DOMAIN call_status :
                  call_id # app_op'.call_id
                     => call_status'[call_id] = call_status[call_id]]_vars
    /\ [][\A call_id \in DOMAIN task_pc :
             (task_pc[call_id] # "returned" /\ task_pc'[call_id] = "returned")
                => /\ app_op'.call_id = call_id
                   /\ call_status'[call_id].status
                         = (IF app_op'.failure = None THEN "connected" ELSE "failed")]_vars
    /\ [](\A call_id \in DOMAIN task_pc :
             task_pc[call_id] \in {"returned", "raised"}
                <=> call_status[call_id].status \in {"connected", "failed"})

\* The first call's task has just ended connected while the second call's
\* task is suspended in create_sip_participant, its record still dialing.
C30_Witness ==
    /\ DOMAIN call_status = {CallId(1), CallId(2)}
    /\ app_op.op = "initiate_call"
    /\ app_op.call_id = CallId(1)
    /\ task_pc[CallId(1)] = "returned"
    /\ call_status[CallId(1)].status = "connected"
    /\ task_pc[CallId(2)] = "create_sip_participant"
    /\ call_status[CallId(2)].status = "dialing"
    /\ call_status[CallId(2)].error = None

\* The watcher has ended: the session was launched or entrypoint returned.
WatcherEnded == w_pc \in {"session", "returned"}

\* C26: a watcher that has started polling ends, in one of the outcomes
\* active, rejected, unavailable and timed-out; the outcome it ended in
\* stays, and the session is launched exactly in the active outcome.
C26_WatcherTerminatesInOneOutcome ==
    /\ (w_pc # "not_started") ~> WatcherEnded
    /\ [](WatcherEnded
            => /\ outcome \in {"active", "rejected", "unavailable", "timed_out"}
               /\ (outcome = "active") <=> (w_pc = "session")
               /\ shutdown_count = (IF outcome = "active" THEN 0 ELSE 1))
    /\ [](~WatcherEnded => outcome = "waiting")
    /\ [][WatcherEnded
            => /\ w_pc' = w_pc
               /\ outcome' = outcome
               /\ shutdown_count' = shutdown_count]_vars

\* The watcher polled for a while, the callee turned out to be unavailable,
\* and the watcher has ended in that outcome.
C26_Witness ==
    /\ WatcherEnded
    /\ outcome = "unavailable"
    /\ w_pc = "returned"
    /\ now > 1
    /\ now < CeilingTicks
    /\ shutdown_count = 1

\* C28: a poll that reads callStatus "active" together with a disconnect
\* reason USER_REJECTED or USER_UNAVAILABLE ends the watcher in the active
\* outcome: the session is launched and ctx.shutdown() is not called.
C28_ActiveWinsOverDisconnectReason ==
    [][(/\ w_pc = "loop"
        /\ now < CeilingTicks
        /\ callStatus = "active"
        /\ disconnect_reason \in {"USER_REJECTED", "USER_UNAVAILABLE"})
       => /\ w_pc' = "session"
          /\ outcome' = "active"
          /\ picked_up'
          /\ session_started'
          /\ shutdown_count' = shutdown_count
          /\ shutdown_count' = 0]_vars

\* The session was launched by a poll that found the call active and the
\* callee reported as unavailable.
C28_Witness ==
    /\ w_pc = "session"
    /\ outcome = "active"
    /\ callStatus = "active"
    /\ disconnect_reason = "USER_UNAVAILABLE"
    /\ session_started
    /\ shutdown_count = 0

\* C27: when make_bulk_calls has returned on a caller that made no other
\* call, call_results holds the very records of the returned list, in the
\* same order, one per recipient, and the campaign summary counts them all.
C27_CallResultsEqualsReturnedList ==
    (bulk_pc = "done" /\ Len(attempts) = Len(recipients))
       => /\ Len(results) = Len(recipients)
          /\ Len(call_results) = Len(results)
          /\ \A k \in 1..Len(results) :
                /\ k <= Len(call_results)
                /\ results[k].own = None
                /\ results[k].ref = k
                /\ Deref(call_results, results[k]) = call_results[k]
          /\ recipients # <<>>
                => /\ call_results # <<>>
                   /\ get_campaign_summary(call_results).total_calls = Len(recipients)

\* C29: a step of update_call_result changes at most one record of
\* call_results: the first whose call_sid equals the argument, which takes
\* the given status; every other record, the length and the order stay as
\* they were, and with no matching record nothing changes.
C29_UpdateTouchesFirstMatchOnly ==
    [][last_op'.op = "update_call_result"
          => /\ Len(call_results') = Len(call_results)
             /\ IF Matching(call_results, last_op'.call_sid) = {}
                THEN call_results' = call_results
                ELSE LET f == First(Matching(call_results, last_op'.call_sid))
                     IN /\ call_results'[f].status = last_op'.status
                        /\ call_results'[f].call_sid = call_results[f].call_sid
                        /\ \A k \in 1..Len(call_results) :
                               k # f => call_results'[k] = call_results[k]]_vars

\* C29 witness: two failed dispatches share the empty call_sid, an update
\* naming it has run, the earlier record took the new status and the later
\* one is still failed.
C29_Witness ==
    /\ last_op.op = "update_call_result"
    /\ last_op.call_sid = ""
    /\ Len(call_results) = 2
    /\ call_results[1].call_sid = ""
    /\ call_results[2].call_sid = ""
    /\ call_results[1].status = "completed"
    /\ call_results[2].status = "failed"

====
